---- MODULE Spec2Model ----
(***************************************************************************)
(* A model of the geolocation database lifecycle of traefik-geoblock:      *)
(* the DatabaseWrapper / DatabaseFactory hot swap (database_factory.go),   *)
(* the singleton registry of factories (GetDatabaseFactory) and the        *)
(* lock-file protocol of downloadAndUpdateDatabase.                        *)
(*                                                                         *)
(* Time is counted in seconds.  A database file is identified by the date  *)
(* of its version (seconds since the epoch of the model); the file the     *)
(* download writes is named after the version date of its header, so the   *)
(* date in a file name and the date in its header are the same number.     *)
(***************************************************************************)
EXTENDS Integers, Sequences, FiniteSets, TLC

----------------------------------------------------------------------------
(* Durations of the program, in seconds.                                   *)

Second == 1
Hour == 3600 * Second
Day == 24 * Hour

\* checkAndUpdate and UpdateIfNeeded: a database older than this is refreshed
StaleAge == 30 * Day
\* startAutoUpdate: period of the update ticker
TickerPeriod == 24 * Hour
\* performHotSwap: sleep before the replaced reader is closed
GraceDelay == 1 * Second
\* downloadAndUpdateDatabase: a lock file at least this old is removed
LockStaleAge == Hour
HalfHour == 1800 * Second

----------------------------------------------------------------------------
(* Bounds of the model.                                                    *)

\* reader handles ip2location.OpenDB can hand out in one behaviour
MaxDb == 3
\* ticker periods the clock may advance by
MaxDays == 1
\* single seconds the clock may advance by
MaxSecs == 1
\* half-hour steps of the clock in the behaviours of the lock file
MaxHalfHours == 3

\* the instant the model starts at
T0 == 100 * Day
\* version dates of database files: 40 days old, 29 days old, and current
OldDate == T0 - 40 * Day
MidDate == T0 - 29 * Day
NewDate == T0
Dates == {OldDate, MidDate, NewDate}
\* version dates of the files that reach the auto-update directory
DirDates == {OldDate, NewDate}

\* request goroutines that look up countries
Readers == {"r1"}
\* goroutines that run downloadAndUpdateDatabase; the factory's own
\* UpdateIfNeeded runs its download in the first
Tasks == {"t1", "t2"}
OwnTasks == {"t1"}
Handles == 1..MaxDb

\* a nil *ip2location.DB, a nil *DBVersion, the empty path, no file
NoDb == 0
NoVersion == 0
NoPath == 0
NoFile == 0
NoLock == 0
\* resolveDatabasePath: the configured database file, opened in place
FallbackPath == -1

VARIABLES
    now,          \* the wall clock
    dir,          \* dates of the database files in DatabaseAutoUpdateDir
    lock,         \* update.lock: its modification time, or NoLock
    fallback,     \* version date of the file at DatabaseFilePath
    wrapper,      \* DatabaseWrapper: [db, path, version]
    dbState,      \* every reader handle: "unused", "open" or "closed"
    dbPath,       \* the file each reader handle was opened on
    dbVer,        \* the version date of that file
    nextCopy,     \* local copies made so far (createLocalDatabaseCopy)
    autoUpdate,   \* config.DatabaseAutoUpdate
    autoUpdateDir,\* config.DatabaseAutoUpdateDir is not the empty string
    fpc,          \* the factory: "new", "ready", "failed"
    sourceDbPath, \* DatabaseFactory.sourceDbPath (a date of dir, or FallbackPath)
    currentLocalDbCopy, \* DatabaseFactory.currentLocalDbCopy
    upc,          \* the auto-update goroutine's position
    latest,       \* checkAndUpdate's local: latest
    newLatest,    \* checkAndUpdate's local: newLatest
    swapNew,      \* performHotSwap's locals: [db, path, version]
    swapOld,      \* swapDatabase's local: oldDB
    tickPending,  \* a tick waits in updateTicker.C
    tickerStopped,\* updateTicker.Stop() was called
    stopClosed,   \* stopChan is closed
    closers,      \* sleeping closer goroutines: [db, wakeAt]
    closed,       \* Close was called on the factory
    missed,       \* consecutive checks that found a newer file and did not swap
    rpc,          \* each reader's position
    rdb,          \* the *ip2location.DB a lookup read from the wrapper
    rres,         \* the outcome of each reader's last lookup
    tpc,          \* each download task's position
    tver,         \* version date of the database the task downloaded
    tres,         \* how the task's last attempt returned
    factories,    \* the registry: configuration key -> factory, or NoFactory
    factoryMutex, \* the caller holding the write lock, or "free"
    mgrs,         \* every factory GetDatabaseFactory constructed
    cpc,          \* each caller's position in GetDatabaseFactory
    ccfg,         \* the configuration the caller asked for
    cret,         \* the factory the caller's last call returned
    returned,     \* (configuration, factory) of every call since the last
                  \* CleanupFactories
    tree,         \* the radix tree of an IpLookupHelper: node at every bit path
    blocks,       \* the CIDR blocks inserted into the tree so far
    lookup,       \* the last IsContained call: its address and its result
    built,        \* how NewIpLookupFileMonitor ended, on which lists and files
    plugin,       \* the Plugin: its flags, country sets and IP block trees
    check,        \* the last CheckAllowed call: its inputs and what it returned
    req           \* the request in ServeHTTP: its headers, its addresses still to
                  \* check, the calls made for it and how it was answered

vars == <<now, dir, lock, fallback, wrapper, dbState, dbPath, dbVer, nextCopy,
          autoUpdate, autoUpdateDir, fpc, sourceDbPath, currentLocalDbCopy, upc,
          latest,
          newLatest, swapNew, swapOld, tickPending, tickerStopped, stopClosed,
          closers, closed, missed, rpc, rdb, rres, tpc, tver, tres,
          factories, factoryMutex, mgrs, cpc, ccfg, cret, returned,
          tree, blocks, lookup, built, plugin, check, req>>

clockVars == <<now>>
fsVars == <<dir, lock, fallback>>
dbVars == <<dbState, dbPath, dbVer, nextCopy>>
factoryVars == <<autoUpdate, autoUpdateDir, fpc, sourceDbPath, currentLocalDbCopy>>
loopVars == <<upc, latest, newLatest, swapNew, swapOld>>
chanVars == <<tickPending, tickerStopped, stopClosed>>
readerVars == <<rpc, rdb, rres>>
taskVars == <<tpc, tver, tres>>
regVars == <<factories, factoryMutex, mgrs, cpc, ccfg, cret, returned>>
trieVars == <<tree, blocks, lookup, built>>
pluginVars == <<plugin, check, req>>
\* the components beside the factory: the registry, the radix tree, the plugin
otherVars == <<regVars, trieVars, pluginVars>>

----------------------------------------------------------------------------
(* Helpers.                                                                *)

SetMax(S) == CHOOSE x \in S : \A y \in S : y <= x

\* findLatestDatabase: the file of the directory with the latest date in its
\* name, the empty path when there is none
findLatestDatabase(d) == IF d = {} THEN NoPath ELSE SetMax(d)

\* UpdateIfNeeded's decision: performUpdate
performUpdate(dbPathArg, t) ==
    \/ dbPathArg = NoPath
    \/ t - dbPathArg > StaleAge

\* a reader handle ip2location.OpenDB has not handed out yet
FreeHandles == {h \in Handles : dbState[h] = "unused"}
NewHandle == CHOOSE h \in FreeHandles : \A g \in FreeHandles : h <= g

\* tasks that are not running downloadAndUpdateDatabase
IdleTasks == {t \in OwnTasks : tpc[t] = "idle"}

EmptyWrapper == [db |-> NoDb, path |-> NoPath, version |-> NoVersion]

----------------------------------------------------------------------------
(* The clock and the shared directory.                                     *)

\* one second passes
AdvanceSecond ==
    /\ (now - T0) % Day < MaxSecs
    /\ now' = now + Second
    /\ UNCHANGED <<otherVars, missed, fsVars, wrapper, dbVars, factoryVars, loopVars, chanVars,
                   closers, closed, readerVars, taskVars>>

\* a ticker period passes: a running ticker puts a tick in its channel
AdvancePeriod ==
    /\ (now - T0) \div Day < MaxDays
    /\ now' = now + TickerPeriod
    /\ tickPending' = (tickPending \/ (upc # "none" /\ ~tickerStopped))
    /\ UNCHANGED <<otherVars, missed, fsVars, wrapper, dbVars, factoryVars, loopVars,
                   tickerStopped, stopClosed, closers, closed, readerVars,
                   taskVars>>

\* another process sharing the directory puts a dated database file in it
ExternalDrop(d) ==
    /\ autoUpdateDir
    /\ d \notin dir
    /\ dir' = dir \cup {d}
    /\ UNCHANGED <<otherVars, missed, now, lock, fallback, wrapper, dbVars, factoryVars, loopVars,
                   chanVars, closers, closed, readerVars, taskVars>>

----------------------------------------------------------------------------
(* NewDatabaseFactory: initialize, then startAutoUpdate.                   *)

\* createLocalDatabaseCopy, ip2location.OpenDB and GetDatabaseVersion can
\* each fail on the file they are given: copyOk and res choose the outcome.
\* handleAutoUpdateInit returns an error when no directory is configured;
\* initialize logs it and goes on with the configured database file.
NewDatabaseFactory ==
    /\ fpc = "new"
    /\ \/ \* resolveDatabasePath finds no database file
          /\ fallback = NoFile
          /\ fpc' = "failed"
          /\ UNCHANGED <<wrapper, dbVars, sourceDbPath, currentLocalDbCopy, upc>>
       \/ /\ fallback # NoFile
          /\ \E copyOk \in BOOLEAN, res \in {"ok", "open_failed", "version_failed"} :
               LET found == IF autoUpdate /\ autoUpdateDir
                              THEN findLatestDatabase(dir) ELSE NoPath
                   copied == found # NoPath /\ copyOk
                   targetPath == IF copied THEN nextCopy + 1 ELSE FallbackPath
                   targetVer == IF copied THEN found ELSE fallback
                   h == NewHandle
               IN  /\ (found = NoPath) => copyOk
                   /\ FreeHandles # {}
                   /\ sourceDbPath' = IF found # NoPath THEN found ELSE FallbackPath
                   /\ currentLocalDbCopy' = IF copied THEN targetPath ELSE NoPath
                   /\ nextCopy' = IF copied THEN nextCopy + 1 ELSE nextCopy
                   /\ IF res = "open_failed"
                        THEN UNCHANGED <<dbState, dbPath, dbVer>>
                        ELSE /\ dbState' = [dbState EXCEPT ![h] =
                                    IF res = "ok" THEN "open" ELSE "closed"]
                             /\ dbPath' = [dbPath EXCEPT ![h] = targetPath]
                             /\ dbVer' = [dbVer EXCEPT ![h] = targetVer]
                   /\ IF res = "ok"
                        THEN /\ wrapper' = [db |-> h, path |-> targetPath,
                                            version |-> targetVer]
                             /\ fpc' = "ready"
                             /\ upc' = IF autoUpdate THEN "start" ELSE "none"
                        ELSE /\ fpc' = "failed"
                             /\ UNCHANGED <<wrapper, upc>>
    /\ UNCHANGED <<otherVars, missed, now, fsVars, autoUpdate, autoUpdateDir, latest, newLatest, swapNew, swapOld,
                   chanVars, closers, closed, readerVars, taskVars>>

----------------------------------------------------------------------------
(* The auto-update goroutine: startAutoUpdate, checkAndUpdate,             *)
(* performHotSwap, swapDatabase.                                           *)

\* select: a tick is received, checkAndUpdate is called
SelectTick ==
    /\ upc = "select"
    /\ tickPending
    /\ tickPending' = FALSE
    /\ upc' = "start"
    /\ UNCHANGED <<otherVars, missed, now, fsVars, wrapper, dbVars, factoryVars, latest, newLatest,
                   swapNew, swapOld, tickerStopped, stopClosed, closers, closed,
                   readerVars, taskVars>>

\* select: stopChan is closed, the goroutine returns
SelectStop ==
    /\ upc = "select"
    /\ stopClosed
    /\ upc' = "exit"
    /\ UNCHANGED <<otherVars, missed, now, fsVars, wrapper, dbVars, factoryVars, latest, newLatest,
                   swapNew, swapOld, chanVars, closers, closed, readerVars,
                   taskVars>>

\* checkAndUpdate without its staleness test
CheckVersionAlwaysScan ==
    /\ upc = "start"
    /\ upc' = IF wrapper.version = NoVersion THEN "select" ELSE "scan"
    /\ UNCHANGED <<otherVars, missed, now, fsVars, wrapper, dbVars, factoryVars,
                   latest, newLatest, swapNew, swapOld, chanVars, closers, closed,
                   readerVars, taskVars>>

\* checkAndUpdate, up to the staleness test
CheckVersion ==
    /\ upc = "start"
    /\ upc' = IF \/ wrapper.version = NoVersion
                 \/ now - wrapper.version < StaleAge
                THEN "select" ELSE "scan"
    /\ UNCHANGED <<otherVars, missed, now, fsVars, wrapper, dbVars, factoryVars, latest, newLatest,
                   swapNew, swapOld, chanVars, closers, closed, readerVars,
                   taskVars>>

\* checkAndUpdate: findLatestDatabase, then UpdateIfNeeded(latest, false, ...),
\* which starts downloadAndUpdateDatabase in a goroutine of its own and
\* returns nil at once
ScanAndUpdate ==
    /\ upc = "scan"
    /\ latest' = IF autoUpdateDir THEN findLatestDatabase(dir) ELSE NoPath
    /\ IF performUpdate(latest', now)
         THEN \E t \in IdleTasks :
                /\ tpc' = [tpc EXCEPT ![t] = "stat"]
                /\ tver' = [tver EXCEPT ![t] = NoVersion]
                /\ tres' = [tres EXCEPT ![t] = "running"]
         ELSE UNCHANGED taskVars
    /\ upc' = "rescan"
    /\ UNCHANGED <<otherVars, missed, now, fsVars, wrapper, dbVars, factoryVars, newLatest, swapNew,
                   swapOld, chanVars, closers, closed, readerVars>>

\* checkAndUpdate: the second findLatestDatabase and its test
Rescan ==
    /\ upc = "rescan"
    /\ LET found == IF autoUpdateDir THEN findLatestDatabase(dir) ELSE NoPath
       IN  IF found = NoPath \/ found = latest
             THEN \* checkAndUpdate returns: its locals are gone
                  /\ upc' = "select"
                  /\ latest' = NoPath
                  /\ newLatest' = NoPath
                  /\ missed' = IF latest # NoPath /\ latest > wrapper.version
                                 THEN missed + 1 ELSE missed
             ELSE /\ upc' = "swap_prepare"
                  /\ newLatest' = found
                  /\ UNCHANGED <<latest, missed>>
    /\ UNCHANGED <<otherVars, now, fsVars, wrapper, dbVars, factoryVars, swapNew,
                   swapOld, chanVars, closers, closed, readerVars, taskVars>>

\* performHotSwap that installs the new reader before it has read its version
HotSwapPrepareEager ==
    /\ upc = "swap_prepare"
    /\ \E res \in {"ok", "copy_failed", "open_failed", "version_failed"} :
         LET h == NewHandle
             copy == nextCopy + 1
         IN  IF res \in {"copy_failed", "open_failed"}
               THEN \* the copy was not made, or was made and removed again
                    /\ upc' = "select"
                    /\ latest' = NoPath
                    /\ newLatest' = NoPath
                    /\ nextCopy' = IF res = "open_failed" THEN copy ELSE nextCopy
                    /\ currentLocalDbCopy' =
                         IF res = "open_failed" THEN copy ELSE currentLocalDbCopy
                    /\ UNCHANGED <<dbState, dbPath, dbVer, swapNew>>
               ELSE /\ FreeHandles # {}
                    /\ nextCopy' = copy
                    /\ currentLocalDbCopy' = copy
                    /\ dbState' = [dbState EXCEPT ![h] =
                            IF res = "ok" THEN "open" ELSE "closed"]
                    /\ dbPath' = [dbPath EXCEPT ![h] = copy]
                    /\ dbVer' = [dbVer EXCEPT ![h] = newLatest]
                    /\ IF res = "ok"
                         THEN /\ swapNew' = [db |-> h, path |-> copy,
                                             version |-> newLatest]
                              /\ upc' = "swap_db"
                              /\ UNCHANGED <<latest, newLatest>>
                         ELSE /\ upc' = "select"
                              /\ latest' = NoPath
                              /\ newLatest' = NoPath
                              /\ UNCHANGED swapNew
    /\ wrapper' = IF upc' = "select" /\ dbState' # dbState
                    THEN [wrapper EXCEPT !.db = NewHandle] ELSE wrapper
    /\ UNCHANGED <<otherVars, missed, now, fsVars, autoUpdate, autoUpdateDir, fpc, sourceDbPath,
                   swapOld, chanVars, closers, closed, readerVars, taskVars>>

\* performHotSwap that opens the file of the directory in place
HotSwapPrepareInPlace ==
    /\ upc = "swap_prepare"
    /\ \E res \in {"ok", "open_failed", "version_failed"} :
         LET h == NewHandle
         IN  IF res = "open_failed"
               THEN /\ upc' = "select"
                    /\ latest' = NoPath
                    /\ newLatest' = NoPath
                    /\ UNCHANGED <<dbState, dbPath, dbVer, swapNew>>
               ELSE /\ FreeHandles # {}
                    /\ dbState' = [dbState EXCEPT ![h] =
                            IF res = "ok" THEN "open" ELSE "closed"]
                    /\ dbPath' = [dbPath EXCEPT ![h] = newLatest]
                    /\ dbVer' = [dbVer EXCEPT ![h] = newLatest]
                    /\ IF res = "ok"
                         THEN /\ swapNew' = [db |-> h, path |-> newLatest,
                                             version |-> newLatest]
                              /\ upc' = "swap_db"
                              /\ UNCHANGED <<latest, newLatest>>
                         ELSE /\ upc' = "select"
                              /\ latest' = NoPath
                              /\ newLatest' = NoPath
                              /\ UNCHANGED swapNew
    /\ UNCHANGED <<otherVars, missed, now, fsVars, wrapper, autoUpdate, autoUpdateDir, fpc, sourceDbPath,
                   currentLocalDbCopy, nextCopy, swapOld, chanVars, closers, closed,
                   readerVars, taskVars>>

\* performHotSwap, up to the swap: the local copy, OpenDB, GetDatabaseVersion
HotSwapPrepare ==
    /\ upc = "swap_prepare"
    /\ \E res \in {"ok", "copy_failed", "open_failed", "version_failed"} :
         LET h == NewHandle
             copy == nextCopy + 1
         IN  IF res \in {"copy_failed", "open_failed"}
               THEN \* the copy was not made, or was made and removed again
                    /\ upc' = "select"
                    /\ latest' = NoPath
                    /\ newLatest' = NoPath
                    /\ nextCopy' = IF res = "open_failed" THEN copy ELSE nextCopy
                    /\ currentLocalDbCopy' =
                         IF res = "open_failed" THEN copy ELSE currentLocalDbCopy
                    /\ UNCHANGED <<dbState, dbPath, dbVer, swapNew>>
               ELSE /\ FreeHandles # {}
                    /\ nextCopy' = copy
                    /\ currentLocalDbCopy' = copy
                    /\ dbState' = [dbState EXCEPT ![h] =
                            IF res = "ok" THEN "open" ELSE "closed"]
                    /\ dbPath' = [dbPath EXCEPT ![h] = copy]
                    /\ dbVer' = [dbVer EXCEPT ![h] = newLatest]
                    /\ IF res = "ok"
                         THEN /\ swapNew' = [db |-> h, path |-> copy,
                                             version |-> newLatest]
                              /\ upc' = "swap_db"
                              /\ UNCHANGED <<latest, newLatest>>
                         ELSE /\ upc' = "select"
                              /\ latest' = NoPath
                              /\ newLatest' = NoPath
                              /\ UNCHANGED swapNew
    /\ UNCHANGED <<otherVars, missed, now, fsVars, wrapper, autoUpdate, autoUpdateDir, fpc, sourceDbPath,
                   swapOld, chanVars, closers, closed, readerVars, taskVars>>

\* swapDatabase: oldDB := dw.db; dw.db = newDB
SwapDb ==
    /\ upc = "swap_db"
    /\ swapOld' = wrapper.db
    /\ wrapper' = [wrapper EXCEPT !.db = swapNew.db]
    /\ upc' = "swap_path"
    /\ UNCHANGED <<otherVars, missed, now, fsVars, dbVars, factoryVars, latest, newLatest, swapNew,
                   chanVars, closers, closed, readerVars, taskVars>>

\* swapDatabase: dw.path = newPath
SwapPath ==
    /\ upc = "swap_path"
    /\ wrapper' = [wrapper EXCEPT !.path = swapNew.path]
    /\ upc' = "swap_version"
    /\ UNCHANGED <<otherVars, missed, now, fsVars, dbVars, factoryVars, latest, newLatest, swapNew,
                   swapOld, chanVars, closers, closed, readerVars, taskVars>>

\* swapDatabase: dw.version = newVersion
SwapVersion ==
    /\ upc = "swap_version"
    /\ wrapper' = [wrapper EXCEPT !.version = swapNew.version]
    /\ upc' = "swap_finish"
    /\ UNCHANGED <<otherVars, missed, now, fsVars, dbVars, factoryVars, latest, newLatest, swapNew,
                   swapOld, chanVars, closers, closed, readerVars, taskVars>>

\* performHotSwap after the swap: the tracking fields, and the goroutine that
\* sleeps and then closes the old reader
HotSwapFinish ==
    /\ upc = "swap_finish"
    /\ sourceDbPath' = newLatest
    /\ closers' = IF swapOld # NoDb
                    THEN closers \cup {[db |-> swapOld, wakeAt |-> now + GraceDelay]}
                    ELSE closers
    /\ upc' = "select"
    /\ latest' = NoPath
    /\ newLatest' = NoPath
    /\ swapNew' = EmptyWrapper
    /\ swapOld' = NoDb
    /\ missed' = 0
    /\ UNCHANGED <<otherVars, now, fsVars, wrapper, dbVars, autoUpdate, autoUpdateDir, fpc,
                   currentLocalDbCopy, chanVars, closed, readerVars, taskVars>>

\* the closer goroutine of performHotSwap: time.Sleep is over, oldDB.Close()
CloseOldDb(c) ==
    /\ c \in closers
    /\ now >= c.wakeAt
    /\ closers' = closers \ {c}
    /\ dbState' = [dbState EXCEPT ![c.db] = "retired"]
    /\ UNCHANGED <<otherVars, missed, now, fsVars, wrapper, dbPath, dbVer, nextCopy, factoryVars,
                   loopVars, chanVars, closed, readerVars, taskVars>>

----------------------------------------------------------------------------
(* DatabaseFactory.Close and DatabaseWrapper.Close.                        *)

Close ==
    /\ fpc = "ready"
    /\ ~closed
    /\ closed' = TRUE
    /\ IF upc # "none"
         THEN tickerStopped' = TRUE /\ stopClosed' = TRUE
         ELSE UNCHANGED <<tickerStopped, stopClosed>>
    /\ IF wrapper.db # NoDb
         THEN /\ dbState' = [dbState EXCEPT ![wrapper.db] = "closed"]
              /\ wrapper' = [wrapper EXCEPT !.db = NoDb]
         ELSE UNCHANGED <<dbState, wrapper>>
    /\ UNCHANGED <<otherVars, missed, now, fsVars, dbPath, dbVer, nextCopy, factoryVars, loopVars,
                   tickPending, closers, readerVars, taskVars>>

----------------------------------------------------------------------------
(* Request goroutines: DatabaseWrapper's lock-free accessors.              *)

\* the auto-update goroutine is inside checkAndUpdate
RefreshInProgress ==
    upc \in {"start", "scan", "rescan", "swap_prepare", "swap_db", "swap_path",
             "swap_version", "swap_finish"}

\* a lookup that waits for the refresh goroutine, as it would under a lock
\* shared with checkAndUpdate
LookupStartLocked(r) ==
    /\ fpc = "ready"
    /\ rpc[r] = "idle"
    /\ ~RefreshInProgress
    /\ rdb' = [rdb EXCEPT ![r] = wrapper.db]
    /\ rpc' = [rpc EXCEPT ![r] = "called"]
    /\ rres' = [rres EXCEPT ![r] = "running"]
    /\ UNCHANGED <<otherVars, missed, now, fsVars, wrapper, dbVars, factoryVars,
                   loopVars, chanVars, closers, closed, taskVars>>

\* Get_country_short evaluates dw.db, the receiver of the library call
LookupStart(r) ==
    /\ fpc = "ready"
    /\ rpc[r] = "idle"
    /\ rdb' = [rdb EXCEPT ![r] = wrapper.db]
    /\ rpc' = [rpc EXCEPT ![r] = "called"]
    /\ rres' = [rres EXCEPT ![r] = "running"]
    /\ UNCHANGED <<otherVars, missed, now, fsVars, wrapper, dbVars, factoryVars, loopVars, chanVars,
                   closers, closed, taskVars>>

\* the library call reads the database file through the reader it was given
LookupFinish(r) ==
    /\ rpc[r] = "called"
    /\ rres' = [rres EXCEPT ![r] =
            IF rdb[r] = NoDb THEN "nil_reader"
            ELSE IF dbState[rdb[r]] = "open" THEN "ok"
            ELSE IF dbState[rdb[r]] = "retired" THEN "retired_reader"
            ELSE "closed_reader"]
    /\ rpc' = [rpc EXCEPT ![r] = "idle"]
    /\ rdb' = [rdb EXCEPT ![r] = NoDb]
    /\ UNCHANGED <<otherVars, missed, now, fsVars, wrapper, dbVars, factoryVars, loopVars, chanVars,
                   closers, closed, taskVars>>

----------------------------------------------------------------------------
(* downloadAndUpdateDatabase, one action per file-system call that another *)
(* task can interleave with.                                               *)

\* a task is between creating update.lock and removing it
InDownloadSection(t) == tpc[t] \in {"fetch", "copy", "unlock"}

\* UpdateIfNeeded of any filter instance starts the download goroutine
StartDownload(t) ==
    /\ tpc[t] = "idle"
    /\ tpc' = [tpc EXCEPT ![t] = "stat"]
    /\ tver' = [tver EXCEPT ![t] = NoVersion]
    /\ tres' = [tres EXCEPT ![t] = "running"]
    /\ UNCHANGED <<otherVars, missed, now, fsVars, wrapper, dbVars, factoryVars, loopVars, chanVars,
                   closers, closed, readerVars>>

\* the test of the age with a limit of two hours
StatLockTwoHours(t) ==
    /\ tpc[t] = "stat"
    /\ IF ~autoUpdateDir
         THEN \* os.MkdirAll of the empty path fails
              /\ tpc' = [tpc EXCEPT ![t] = "idle"]
              /\ tres' = [tres EXCEPT ![t] = "mkdir_failed"]
         ELSE IF lock = NoLock
         THEN /\ tpc' = [tpc EXCEPT ![t] = "create"]
              /\ UNCHANGED tres
         ELSE IF now - lock < 2 * LockStaleAge
         THEN /\ tpc' = [tpc EXCEPT ![t] = "idle"]
              /\ tres' = [tres EXCEPT ![t] = "in_progress"]
         ELSE /\ tpc' = [tpc EXCEPT ![t] = "remove"]
              /\ UNCHANGED tres
    /\ UNCHANGED <<otherVars, missed, now, fsVars, wrapper, dbVars, factoryVars,
                   loopVars, chanVars, closers, closed, readerVars, tver>>

\* os.Stat(lockFile) and the test of its age
StatLock(t) ==
    /\ tpc[t] = "stat"
    /\ IF ~autoUpdateDir
         THEN \* os.MkdirAll of the empty path fails
              /\ tpc' = [tpc EXCEPT ![t] = "idle"]
              /\ tres' = [tres EXCEPT ![t] = "mkdir_failed"]
         ELSE IF lock = NoLock
         THEN /\ tpc' = [tpc EXCEPT ![t] = "create"]
              /\ UNCHANGED tres
         ELSE IF now - lock < LockStaleAge
         THEN /\ tpc' = [tpc EXCEPT ![t] = "idle"]
              /\ tres' = [tres EXCEPT ![t] = "in_progress"]
         ELSE /\ tpc' = [tpc EXCEPT ![t] = "remove"]
              /\ UNCHANGED tres
    /\ UNCHANGED <<otherVars, missed, now, fsVars, wrapper, dbVars, factoryVars, loopVars, chanVars,
                   closers, closed, readerVars, tver>>

\* os.Remove(lockFile) of a stale lock file; it fails when the file is gone
RemoveStaleLock(t) ==
    /\ tpc[t] = "remove"
    /\ IF lock = NoLock
         THEN /\ tpc' = [tpc EXCEPT ![t] = "idle"]
              /\ tres' = [tres EXCEPT ![t] = "remove_failed"]
              /\ UNCHANGED lock
         ELSE /\ lock' = NoLock
              /\ tpc' = [tpc EXCEPT ![t] = "create"]
              /\ UNCHANGED tres
    /\ UNCHANGED <<otherVars, missed, now, dir, fallback, wrapper, dbVars, factoryVars, loopVars,
                   chanVars, closers, closed, readerVars, tver>>

\* os.Create(lockFile): creates the file or truncates the one that is there
CreateLock(t) ==
    /\ tpc[t] = "create"
    /\ lock' = now
    /\ tpc' = [tpc EXCEPT ![t] = "fetch"]
    /\ UNCHANGED <<otherVars, missed, now, dir, fallback, wrapper, dbVars, factoryVars, loopVars,
                   chanVars, closers, closed, readerVars, tver, tres>>

\* a download that copies the extracted file into the directory before
\* GetDatabaseVersion has read its header
FetchPromoteFirst(t) ==
    /\ tpc[t] = "fetch"
    /\ \/ \E v \in DirDates :
            /\ dir' = dir \cup {v}
            /\ tres' = [tres EXCEPT ![t] = "download_failed"]
            /\ tpc' = [tpc EXCEPT ![t] = "unlock"]
            /\ UNCHANGED tver
       \/ \E v \in DirDates :
            /\ tver' = [tver EXCEPT ![t] = v]
            /\ tpc' = [tpc EXCEPT ![t] = "copy"]
            /\ UNCHANGED <<tres, dir>>
    /\ UNCHANGED <<otherVars, missed, now, lock, fallback, wrapper, dbVars, factoryVars,
                   loopVars, chanVars, closers, closed, readerVars>>

\* a download whose failure returns without the removal of the lock file
FetchFailureKeepsLock(t) ==
    /\ tpc[t] = "fetch"
    /\ \/ /\ tres' = [tres EXCEPT ![t] = "download_failed"]
          /\ tpc' = [tpc EXCEPT ![t] = "idle"]
          /\ UNCHANGED tver
       \/ \E v \in DirDates :
            /\ tver' = [tver EXCEPT ![t] = v]
            /\ tpc' = [tpc EXCEPT ![t] = "copy"]
            /\ UNCHANGED tres
    /\ UNCHANGED <<otherVars, missed, now, fsVars, wrapper, dbVars, factoryVars,
                   loopVars, chanVars, closers, closed, readerVars>>

\* the temporary directory, the download, the extraction and the validation
\* of the header: they fail, or yield a database of some version date
Fetch(t) ==
    /\ tpc[t] = "fetch"
    /\ \/ /\ tres' = [tres EXCEPT ![t] = "download_failed"]
          /\ tpc' = [tpc EXCEPT ![t] = "unlock"]
          /\ UNCHANGED tver
       \/ \E v \in DirDates :
            /\ tver' = [tver EXCEPT ![t] = v]
            /\ tpc' = [tpc EXCEPT ![t] = "copy"]
            /\ UNCHANGED tres
    /\ UNCHANGED <<otherVars, missed, now, fsVars, wrapper, dbVars, factoryVars, loopVars, chanVars,
                   closers, closed, readerVars>>

\* copyFile(tmpDBPath, finalPath, false): fails when the dated file exists
CopyToFinal(t) ==
    /\ tpc[t] = "copy"
    /\ IF tver[t] \in dir
         THEN /\ tres' = [tres EXCEPT ![t] = "copy_failed"]
              /\ UNCHANGED dir
         ELSE /\ dir' = dir \cup {tver[t]}
              /\ tres' = [tres EXCEPT ![t] = "ok"]
    /\ tver' = [tver EXCEPT ![t] = NoVersion]
    /\ tpc' = [tpc EXCEPT ![t] = "unlock"]
    /\ UNCHANGED <<otherVars, missed, now, lock, fallback, wrapper, dbVars, factoryVars, loopVars,
                   chanVars, closers, closed, readerVars>>

\* the deferred lock.Close() and os.Remove(lockFile)
RemoveLock(t) ==
    /\ tpc[t] = "unlock"
    /\ lock' = NoLock
    /\ tpc' = [tpc EXCEPT ![t] = "idle"]
    /\ UNCHANGED <<otherVars, missed, now, dir, fallback, wrapper, dbVars, factoryVars, loopVars,
                   chanVars, closers, closed, readerVars, tver, tres>>

----------------------------------------------------------------------------
(* generateConfigHash: json.Marshal of the DatabaseConfig, FNV-1 over its  *)
(* bytes (hash/fnv New32), the sum printed in decimal.  A 32-bit word is a *)
(* pair <<high 16 bits, low 16 bits>>.                                     *)

\* the pieces of the JSON text of a DatabaseConfig, as bytes
JsonFilePath == <<123, 34, 68, 97, 116, 97, 98, 97, 115, 101, 70, 105, 108,
                  101, 80, 97, 116, 104, 34, 58, 34>>
JsonAutoUpdate == <<34, 44, 34, 68, 97, 116, 97, 98, 97, 115, 101, 65, 117,
                    116, 111, 85, 112, 100, 97, 116, 101, 34, 58>>
JsonAutoUpdateDir == <<44, 34, 68, 97, 116, 97, 98, 97, 115, 101, 65, 117, 116,
                       111, 85, 112, 100, 97, 116, 101, 68, 105, 114, 34, 58,
                       34>>
JsonAutoUpdateToken == <<34, 44, 34, 68, 97, 116, 97, 98, 97, 115, 101, 65, 117,
                         116, 111, 85, 112, 100, 97, 116, 101, 84, 111, 107,
                         101, 110, 34, 58, 34>>
JsonAutoUpdateCode == <<34, 44, 34, 68, 97, 116, 97, 98, 97, 115, 101, 65, 117,
                        116, 111, 85, 112, 100, 97, 116, 101, 67, 111, 100,
                        101, 34, 58, 34>>
JsonEnd == <<34, 125>>
JsonTrue == <<116, 114, 117, 101>>
JsonFalse == <<102, 97, 108, 115, 101>>

\* json.Marshal(config): the fields in the order of the struct; the strings
\* of the model hold only letters, digits and dots, which are written as is
jsonMarshal(c) ==
    JsonFilePath \o c.DatabaseFilePath
    \o JsonAutoUpdate \o (IF c.DatabaseAutoUpdate THEN JsonTrue ELSE JsonFalse)
    \o JsonAutoUpdateDir \o c.DatabaseAutoUpdateDir
    \o JsonAutoUpdateToken \o c.DatabaseAutoUpdateToken
    \o JsonAutoUpdateCode \o c.DatabaseAutoUpdateCode
    \o JsonEnd

RECURSIVE Xor(_, _, _)
\* the exclusive or of the low n bits of a and b
Xor(a, b, n) ==
    IF n = 0 THEN 0
    ELSE (((a % 2) + (b % 2)) % 2) + 2 * Xor(a \div 2, b \div 2, n - 1)

\* hash *= prime32 (16777619 = 2^24 + 403), modulo 2^32
fnvMul(h) ==
    LET p == h[2] * 403
    IN  << (h[1] * 403 + p \div 65536 + (h[2] % 256) * 256) % 65536,
           p % 65536 >>

\* hash ^= byte
fnvXor(h, b) == << h[1], (h[2] \div 256) * 256 + Xor(h[2] % 256, b, 8) >>

RECURSIVE fnvWrite(_, _, _, _)
\* sum32.Write: the loop over the bytes at positions i..j, in order.  The
\* range is halved and the sum after the first half is bound as a value, which
\* keeps the evaluation shallow
fnvWrite(h, bytes, i, j) ==
    IF i > j THEN h
    ELSE IF i = j THEN fnvXor(fnvMul(h), bytes[i])
    ELSE LET mid == (i + j) \div 2
         IN  CHOOSE r \in {fnvWrite(x, bytes, mid + 1, j) :
                              x \in {fnvWrite(h, bytes, i, mid)}} : TRUE

\* offset32 = 2166136261 = 0x811c9dc5
fnvOffset == <<33052, 40389>>

RECURSIVE formatUint(_)
\* strconv.FormatUint(x, 10): the decimal digits, most significant first
formatUint(h) ==
    LET t == (h[1] % 10) * 65536 + h[2]
        q == << h[1] \div 10, t \div 10 >>
    IN  IF q = <<0, 0>> THEN << t % 10 >>
        ELSE Append(formatUint(q), t % 10)

generateConfigHash(c) ==
    LET data == jsonMarshal(c)
    IN  formatUint(fnvWrite(fnvOffset, data, 1, Len(data)))

----------------------------------------------------------------------------
(* The registry of factories: GetDatabaseFactory and CleanupFactories.     *)

\* "vmexa.bin" and "hbfrw.bin"
PathA == <<118, 109, 101, 120, 97, 46, 98, 105, 110>>
PathB == <<104, 98, 102, 114, 119, 46, 98, 105, 110>>

ConfigA == [DatabaseFilePath |-> PathA, DatabaseAutoUpdate |-> FALSE,
            DatabaseAutoUpdateDir |-> <<>>, DatabaseAutoUpdateToken |-> <<>>,
            DatabaseAutoUpdateCode |-> <<>>]
ConfigB == [ConfigA EXCEPT !.DatabaseFilePath = PathB]
\* auto-update on, directory "d"
ConfigC == [ConfigA EXCEPT !.DatabaseAutoUpdate = TRUE,
                           !.DatabaseAutoUpdateDir = <<100>>]
Configs == {ConfigA, ConfigB, ConfigC}

\* the key of each configuration
ConfigKey == [c \in Configs |-> generateConfigHash(c)]

\* goroutines that call GetDatabaseFactory
Callers == {"c1", "c2"}
\* the goroutine that calls CleanupFactories
Cleaner == "cleanup"
\* factories that can be constructed in one behaviour
MaxFactories == 3
FactoryIds == 1..MaxFactories
\* a nil *DatabaseFactory
NoFactory == 0

\* an empty Go map, and m[k] = v
EmptyMap == [k \in {} |-> NoFactory]
Put(f, k, v) == [x \in DOMAIN f \cup {k} |-> IF x = k THEN v ELSE f[x]]

\* mgrs holds the factories constructed so far; the next one gets the next id
UnusedFactories == FactoryIds \ DOMAIN mgrs
NewFactoryId == CHOOSE m \in UnusedFactories : \A n \in UnusedFactories : m <= n

\* the factories of a configuration that are constructed and not closed, those
\* that hold an open database and those that run an auto-update goroutine
LiveFactories(c) == {m \in DOMAIN mgrs : mgrs[m].live /\ mgrs[m].cfg = c}
OpenDatabases(c) == {m \in DOMAIN mgrs : mgrs[m].dbOpen /\ mgrs[m].cfg = c}
UpdateLoops(c) == {m \in DOMAIN mgrs : mgrs[m].loop /\ mgrs[m].cfg = c}

factoryFrame ==
    UNCHANGED <<trieVars, pluginVars, now, fsVars, wrapper, dbVars, factoryVars, loopVars, chanVars,
                closers, closed, missed, readerVars, taskVars>>

\* GetDatabaseFactory, the read-locked part: the key and the first lookup
FastPath(caller, c) ==
    /\ cpc[caller] = "idle"
    /\ factoryMutex = "free"
    /\ ccfg' = Put(ccfg, caller, c)
    /\ LET key == ConfigKey[c]
       IN  IF key \in DOMAIN factories
             THEN /\ cret' = [cret EXCEPT ![caller] = factories[key]]
                  /\ returned' = returned \cup {<<c, factories[key]>>}
                  /\ UNCHANGED cpc
             ELSE /\ cpc' = [cpc EXCEPT ![caller] = "lock"]
                  /\ cret' = [cret EXCEPT ![caller] = NoFactory]
                  /\ UNCHANGED returned
    /\ UNCHANGED <<factories, factoryMutex, mgrs>>
    /\ factoryFrame

\* factoryMutex.Lock()
AcquireLock(caller) ==
    /\ cpc[caller] = "lock"
    /\ factoryMutex = "free"
    /\ factoryMutex' = caller
    /\ cpc' = [cpc EXCEPT ![caller] = "locked"]
    /\ UNCHANGED <<factories, mgrs, ccfg, cret, returned>>
    /\ factoryFrame

\* a construction that registers its result whether or not initialize failed
ConstructAndRegister(caller, c, key) ==
    \/ /\ cret' = [cret EXCEPT ![caller] = NoFactory]
       /\ factories' = Put(factories, key, NoFactory)
       /\ UNCHANGED <<mgrs, returned>>
    \/ /\ UnusedFactories # {}
       /\ mgrs' = Put(mgrs, NewFactoryId,
                      [live |-> TRUE, cfg |-> c, dbOpen |-> TRUE,
                       loop |-> c.DatabaseAutoUpdate,
                       stops |-> 0, dbCloses |-> 0])
       /\ factories' = Put(factories, key, NewFactoryId)
       /\ cret' = [cret EXCEPT ![caller] = NewFactoryId]
       /\ returned' = returned \cup {<<c, NewFactoryId>>}

\* NewDatabaseFactory(config) and factories[key] = factory: initialize fails,
\* or the factory is live with its database open and is registered
Construct(caller, c, key) ==
    \/ /\ cret' = [cret EXCEPT ![caller] = NoFactory]
       /\ UNCHANGED <<factories, mgrs, returned>>
    \/ /\ UnusedFactories # {}
       /\ mgrs' = Put(mgrs, NewFactoryId,
                      [live |-> TRUE, cfg |-> c, dbOpen |-> TRUE,
                       loop |-> c.DatabaseAutoUpdate,
                       stops |-> 0, dbCloses |-> 0])
       /\ factories' = Put(factories, key, NewFactoryId)
       /\ cret' = [cret EXCEPT ![caller] = NewFactoryId]
       /\ returned' = returned \cup {<<c, NewFactoryId>>}

\* the write-locked part without its second lookup
SlowPathUnchecked(caller) ==
    /\ cpc[caller] = "locked"
    /\ factoryMutex = caller
    /\ Construct(caller, ccfg[caller], ConfigKey[ccfg[caller]])
    /\ factoryMutex' = "free"
    /\ cpc' = [cpc EXCEPT ![caller] = "idle"]
    /\ UNCHANGED ccfg
    /\ factoryFrame

\* GetDatabaseFactory under the write lock: the second lookup,
\* NewDatabaseFactory (which can fail), the registration, the deferred Unlock
SlowPath(caller) ==
    /\ cpc[caller] = "locked"
    /\ factoryMutex = caller
    /\ LET c == ccfg[caller]
           key == ConfigKey[c]
       IN  IF key \in DOMAIN factories
             THEN /\ cret' = [cret EXCEPT ![caller] = factories[key]]
                  /\ returned' = returned \cup {<<c, factories[key]>>}
                  /\ UNCHANGED <<factories, mgrs>>
             ELSE Construct(caller, c, key)
    /\ factoryMutex' = "free"
    /\ cpc' = [cpc EXCEPT ![caller] = "idle"]
    /\ UNCHANGED ccfg
    /\ factoryFrame

\* CleanupFactories: factoryMutex.Lock()
CleanupLock ==
    /\ cpc[Cleaner] = "idle"
    /\ factoryMutex = "free"
    /\ factoryMutex' = Cleaner
    /\ cpc' = [cpc EXCEPT ![Cleaner] = "locked"]
    /\ UNCHANGED <<factories, mgrs, ccfg, cret, returned>>
    /\ factoryFrame

\* df.Close() of a factory whose stopChan is closed already: the ticker is
\* still set, and close(df.stopChan) of a closed channel panics
closePanics(f) == f.cfg.DatabaseAutoUpdate /\ f.stops > 0

\* df.Close() that returns: the ticker is stopped and stopChan closed when
\* the factory has a ticker, and wrapper.Close() closes a database that is
\* still open
closeFactory(f) ==
    [f EXCEPT !.live = FALSE,
              !.loop = FALSE,
              !.stops = IF f.cfg.DatabaseAutoUpdate THEN @ + 1 ELSE @,
              !.dbOpen = FALSE,
              !.dbCloses = IF f.dbOpen THEN @ + 1 ELSE @]

\* factory.Close() by a holder of a factory that GetDatabaseFactory returned
CloseFactory(caller) ==
    /\ cpc[caller] = "idle"
    /\ cret[caller] \in DOMAIN mgrs
    /\ LET m == cret[caller]
       IN  IF closePanics(mgrs[m])
             THEN /\ cpc' = [cpc EXCEPT ![caller] = "panicked"]
                  /\ UNCHANGED mgrs
             ELSE /\ mgrs' = [mgrs EXCEPT ![m] = closeFactory(mgrs[m])]
                  /\ UNCHANGED cpc
    /\ UNCHANGED <<factories, factoryMutex, ccfg, cret, returned>>
    /\ factoryFrame

\* the registered factories, and the keys whose factory panics in Close
Registered == {factories[k] : k \in DOMAIN factories} \cap DOMAIN mgrs
faultyKeys ==
    {k \in DOMAIN factories :
        factories[k] \in DOMAIN mgrs /\ closePanics(mgrs[factories[k]])}

\* the registry after the factories of the keys in done were closed and
\* deleted
cleaned(done) ==
    /\ mgrs' = [m \in DOMAIN mgrs |->
                  IF \E k \in done : factories[k] = m
                    THEN closeFactory(mgrs[m])
                    ELSE mgrs[m]]
    /\ factories' = [k \in DOMAIN factories \ done |-> factories[k]]
    /\ returned' = {p \in returned : \A k \in done : factories[k] # p[2]}

\* a cleanup that closes the factories and leaves them registered
CleanupFactoriesKeepEntries ==
    /\ cpc[Cleaner] = "locked"
    /\ factoryMutex = Cleaner
    /\ mgrs' = [m \in DOMAIN mgrs |->
                  IF m \in Registered THEN closeFactory(mgrs[m]) ELSE mgrs[m]]
    /\ factoryMutex' = "free"
    /\ cpc' = [cpc EXCEPT ![Cleaner] = "idle"]
    /\ UNCHANGED <<factories, returned, ccfg, cret>>
    /\ factoryFrame

\* CleanupFactories: every registered factory is closed and deleted, in the
\* order of the map iteration; a Close that panics ends the loop with the
\* factories before it closed and deleted, and the deferred Unlock runs
CleanupFactories ==
    /\ cpc[Cleaner] = "locked"
    /\ factoryMutex = Cleaner
    /\ IF faultyKeys = {}
         THEN /\ cleaned(DOMAIN factories)
              /\ cpc' = [cpc EXCEPT ![Cleaner] = "idle"]
         ELSE /\ \E done \in SUBSET (DOMAIN factories \ faultyKeys) :
                    cleaned(done)
              /\ cpc' = [cpc EXCEPT ![Cleaner] = "panicked"]
    /\ factoryMutex' = "free"
    /\ UNCHANGED <<ccfg, cret>>
    /\ factoryFrame

----------------------------------------------------------------------------
(* The radix tree of IpLookupHelper.  Addresses are scaled down: an IPv4   *)
(* address has V4Bits bits instead of 32, the prefix of an IPv4-mapped     *)
(* IPv6 address (::ffff:0:0/96) has two bits instead of 96.                *)

\* bits of the 4-byte form of an address
V4Bits == 2
\* the first bits of the 16-byte form of an IPv4 address
MappedPrefix == <<0, 1>>
\* bits of the 16-byte form
V6Bits == Len(MappedPrefix) + V4Bits

RECURSIVE BitSeqs(_)
\* the bit sequences of length n
BitSeqs(n) ==
    IF n = 0 THEN {<<>>}
    ELSE {Append(b, x) : b \in BitSeqs(n - 1), x \in {0, 1}}

\* a nil net.IP and a nil *radixNode
NilIP == <<>>
NilNode == <<2>>

\* ip.To4(): the 4-byte form of an IPv4 address in either form, else nil
To4(ip) ==
    IF Len(ip) = V4Bits THEN ip
    ELSE IF Len(ip) = V6Bits /\ SubSeq(ip, 1, Len(MappedPrefix)) = MappedPrefix
    THEN SubSeq(ip, Len(MappedPrefix) + 1, V6Bits)
    ELSE NilIP

\* ip.To16() of a 4-byte form
To16(ip) == IF Len(ip) = V4Bits THEN MappedPrefix \o ip ELSE ip

\* net.ParseIP: every address comes in its 16-byte form
IPs == BitSeqs(V6Bits)

\* ip.Mask(mask): the bits after the first ones are cleared
Masked(ip, ones) == [i \in 1..Len(ip) |-> IF i <= ones THEN ip[i] ELSE 0]

\* net.ParseCIDR: an IPv4 block has a 4-byte address and at most V4Bits ones,
\* an IPv6 block a 16-byte address that is not IPv4-mapped
CIDRs ==
    {[ip |-> Masked(ip, n), ones |-> n] : ip \in BitSeqs(V4Bits), n \in 0..V4Bits}
    \cup {c \in {[ip |-> Masked(ip, n), ones |-> n] : ip \in IPs, n \in 0..V6Bits} :
            To4(c.ip) = NilIP}

\* &radixNode{} and newIPRadixTree(): the root is the node at the empty path
EmptyNode == [isEndpoint |-> FALSE, prefixLen |-> 0]
EmptyTree == (<<>> :> EmptyNode)

RECURSIVE insertWalkMarkingPath(_, _, _, _, _, _)
\* an insert that marks every node it passes as the end of a block
insertWalkMarkingPath(t, ip, bitStart, prefixLen, i, current) ==
    LET marked == [t EXCEPT ![current] = [isEndpoint |-> TRUE, prefixLen |-> i]]
    IN  IF i < prefixLen
          THEN LET next == Append(current, ip[bitStart + i + 1])
               IN  insertWalkMarkingPath(
                       IF next \in DOMAIN t THEN marked
                       ELSE marked @@ (next :> EmptyNode),
                       ip, bitStart, prefixLen, i + 1, next)
          ELSE marked

RECURSIVE insertWalk(_, _, _, _, _, _)
\* the loop of insert and the marking of the node it ends at
insertWalk(t, ip, bitStart, prefixLen, i, current) ==
    IF i < prefixLen
      THEN LET next == Append(current, ip[bitStart + i + 1])
           IN  insertWalk(IF next \in DOMAIN t THEN t ELSE t @@ (next :> EmptyNode),
                          ip, bitStart, prefixLen, i + 1, next)
      ELSE [t EXCEPT ![current] = [isEndpoint |-> TRUE, prefixLen |-> prefixLen]]

\* ipRadixTree.insert
insert(t, cidr) ==
    LET isIPv4 == To4(cidr.ip) # NilIP
        ip == IF isIPv4 THEN To16(To4(cidr.ip)) ELSE cidr.ip
        bitStart == IF isIPv4 THEN V6Bits - V4Bits ELSE 0
    IN  insertWalk(t, ip, bitStart, cidr.ones, 0, <<>>)

RECURSIVE containsWalk(_, _, _, _, _, _, _, _)
\* the loop of contains and the test of the node it ends at
containsWalk(t, ip, bitStart, maxPrefixLen, i, current, found, longestMatch) ==
    IF i < maxPrefixLen /\ current # NilNode
      THEN LET hit == t[current].isEndpoint
               next == Append(current, ip[bitStart + i + 1])
           IN  containsWalk(t, ip, bitStart, maxPrefixLen, i + 1,
                            IF next \in DOMAIN t THEN next ELSE NilNode,
                            found \/ hit,
                            IF hit THEN t[current].prefixLen ELSE longestMatch)
      ELSE IF current # NilNode /\ t[current].isEndpoint
      THEN [found |-> TRUE, prefixLen |-> t[current].prefixLen]
      ELSE [found |-> found, prefixLen |-> longestMatch]

\* ipRadixTree.contains
contains(t, addr) ==
    LET isIPv4 == To4(addr) # NilIP
        ip == IF isIPv4 THEN To16(To4(addr)) ELSE addr
        bitStart == IF isIPv4 THEN V6Bits - V4Bits ELSE 0
        maxPrefixLen == IF isIPv4 THEN V4Bits ELSE V6Bits
    IN  containsWalk(t, ip, bitStart, maxPrefixLen, 0, <<>>, FALSE, 0)

\* CIDR blocks one helper is given
MaxBlocks == 2

trieFrame ==
    UNCHANGED <<regVars, pluginVars, now, fsVars, wrapper, dbVars, factoryVars, loopVars,
                chanVars, closers, closed, missed, readerVars, taskVars>>

\* NewIpLookupHelper: the next block of the list is parsed and inserted
Insert(cidr) ==
    /\ Cardinality(blocks) < MaxBlocks
    /\ cidr \notin blocks
    /\ tree' = insert(tree, cidr)
    /\ blocks' = blocks \cup {cidr}
    /\ lookup' = [ip |-> NilIP, found |-> FALSE, prefixLen |-> 0, err |-> FALSE,
                  panicked |-> FALSE]
    /\ UNCHANGED built
    /\ trieFrame

\* ipRadixTree.contains indexes the address with the position of the bit it
\* reads in the first turn of its loop (the root is never nil): outside the
\* address, as for a nil net.IP, the index is out of range and the call panics
containsPanics(addr) ==
    LET isIPv4 == To4(addr) # NilIP
        ip == IF isIPv4 THEN To16(To4(addr)) ELSE addr
        bitStart == IF isIPv4 THEN V6Bits - V4Bits ELSE 0
    IN  bitStart + 1 > Len(ip)

\* IpLookupHelper.IsContained, and IpLookupFileMonitor.IsContained that calls
\* it: the error it returns is always nil
IsContained(ip) ==
    /\ lookup' = IF containsPanics(ip)
                   THEN [ip |-> ip, found |-> FALSE, prefixLen |-> 0,
                         err |-> FALSE, panicked |-> TRUE]
                   ELSE [ip |-> ip, found |-> contains(tree, ip).found,
                         prefixLen |-> contains(tree, ip).prefixLen,
                         err |-> FALSE, panicked |-> FALSE]
    /\ UNCHANGED <<tree, blocks, built>>
    /\ trieFrame

\* net.ParseCIDR of an IPv4-mapped IPv6 block: the address keeps its 16 bytes
MappedCIDRs ==
    {c \in {[ip |-> Masked(ip, n), ones |-> n] : ip \in IPs, n \in 0..V6Bits} :
        To4(c.ip) # NilIP}

\* the lines of a block file: a blank line, a comment, a text that is no
\* CIDR block, a block (of at most as many network bits as an IPv4 address
\* has, or IPv4-mapped)
FileLines ==
    {[kind |-> k, ip |-> NilIP, ones |-> 0] : k \in {"blank", "comment", "malformed"}}
    \cup {[kind |-> "cidr", ip |-> c.ip, ones |-> c.ones] :
            c \in {x \in CIDRs : x.ones <= V4Bits} \cup MappedCIDRs}

RECURSIVE SubsetsUpTo(_, _)
\* the subsets of S of at most n elements
SubsetsUpTo(S, n) ==
    IF n = 0 THEN {{}}
    ELSE LET smaller == SubsetsUpTo(S, n - 1)
         IN  smaller \cup {p \cup {x} : p \in smaller, x \in S}

\* the directory of block files: missing, not to be read, or holding one file
\* of some lines that is a .txt file or not and can be read or not
Directories ==
    [state : {"missing", "denied"}, txt : {FALSE}, readable : {FALSE}, lines : {{}}]
    \cup [state : {"present"}, txt : BOOLEAN, readable : BOOLEAN,
          lines : SubsetsUpTo(FileLines, MaxBlocks)]

\* readBlocksFromFile: the lines that are blocks
readBlocksFromFile(file) ==
    {[ip |-> l.ip, ones |-> l.ones] : l \in {x \in file.lines : x.kind = "cidr"}}

\* insert reads past the 16 bytes of an IPv4 address in either form when the
\* prefix is longer than an IPv4 address: the index is out of range
insertPanics(cidr) == To4(cidr.ip) # NilIP /\ cidr.ones > V4Bits

RECURSIVE insertAll(_, _)
\* the loops over AddCIDR: every block of the list is inserted
insertAll(t, cidrs) ==
    IF cidrs = {} THEN t
    ELSE LET c == CHOOSE x \in cidrs : TRUE
         IN  insertAll(insert(t, c), cidrs \ {c})

NoBuild ==
    [done |-> FALSE, err |-> FALSE, panicked |-> FALSE,
     static |-> {},
     dir |-> [state |-> "missing", txt |-> FALSE, readable |-> FALSE, lines |-> {}]]

\* NewIpLookupFileMonitor: the static blocks, then the blocks of the .txt
\* files of the directory that can be read
NewMonitor(cidrBlocks, directory) ==
    LET fromDir == IF /\ directory.state = "present"
                      /\ directory.txt /\ directory.readable
                   THEN readBlocksFromFile(directory)
                   ELSE {}
        all == cidrBlocks \cup fromDir
        panics == \E c \in all : insertPanics(c)
        fails == directory.state = "denied"
    IN  /\ ~built.done
        /\ built' = [done |-> TRUE, err |-> ~panics /\ fails, panicked |-> panics,
                     static |-> cidrBlocks, dir |-> directory]
        /\ IF panics \/ fails
             THEN UNCHANGED <<tree, blocks>>
             ELSE /\ tree' = insertAll(EmptyTree, all)
                  /\ blocks' = all
        /\ UNCHANGED lookup
        /\ trieFrame

\* an empty helper, no call made
InitTrie ==
    /\ tree = EmptyTree
    /\ blocks = {}
    /\ lookup = [ip |-> NilIP, found |-> FALSE, prefixLen |-> 0, err |-> FALSE,
                  panicked |-> FALSE]
    /\ built = NoBuild

----------------------------------------------------------------------------
(* The plugin: CheckAllowed decides one address from the private ranges,   *)
(* the two IP block trees, the country the database answers with, the      *)
(* country sets and the default.                                           *)

\* strings are the sequences of their characters
UpperCase == <<"A", "B", "C", "D", "E", "F", "G", "H", "I", "J", "K", "L", "M",
               "N", "O", "P", "Q", "R", "S", "T", "U", "V", "W", "X", "Y", "Z">>
LowerCase == <<"a", "b", "c", "d", "e", "f", "g", "h", "i", "j", "k", "l", "m",
               "n", "o", "p", "q", "r", "s", "t", "u", "v", "w", "x", "y", "z">>

\* strings.ToLower
ToLower(s) ==
    [i \in DOMAIN s |->
        IF \E k \in DOMAIN UpperCase : UpperCase[k] = s[i]
        THEN LowerCase[CHOOSE k \in DOMAIN UpperCase : UpperCase[k] = s[i]]
        ELSE s[i]]

\* strings.HasPrefix
HasPrefix(s, prefix) ==
    Len(s) >= Len(prefix) /\ SubSeq(s, 1, Len(prefix)) = prefix

PrivateIpCountryAlias == <<"P", "R", "I", "V", "A", "T", "E">>
NoString == <<>>
\* the phase of a call that ended in an error
NoPhase == ""

\* what the database holds in Country_short: countries, the dash of an
\* address it has no country for, and its message for a bad address
US == <<"U", "S">>
CN == <<"C", "N">>
NoCountry == <<"-">>
InvalidAddress == <<"I", "n", "v", "a", "l", "i", "d", " ", "I", "P">>

\* DatabaseWrapper.Get_country_short: a record, or an error
DbAnswers ==
    {[err |-> TRUE, Country_short |-> NoString]}
    \cup {[err |-> FALSE, Country_short |-> c] :
            c \in {US, CN, NoCountry, InvalidAddress}}

\* the text of an address, one character a bit
FormatIP(ip) == [i \in DOMAIN ip |-> IF ip[i] = 1 THEN "1" ELSE "0"]

\* a text that is no address
Garbage == <<"?">>

\* the texts CheckAllowed is called with
IpStrings == {FormatIP(ip) : ip \in IPs} \cup {Garbage}

\* net.ParseIP: the 16-byte form, or nil
ParseIP(s) ==
    IF Len(s) = V6Bits /\ \A i \in DOMAIN s : s[i] \in {"0", "1"}
    THEN [i \in DOMAIN s |-> IF s[i] = "1" THEN 1 ELSE 0]
    ELSE NilIP

\* the leading bits of 10.0.0.0/8, 172.16.0.0/12, 192.168.0.0/16 and of fc00::/7
PrivateV4Prefix == <<1, 0>>
PrivateV6Prefix == <<1, 1>>

\* net.IP.IsPrivate: the RFC 1918 ranges of an IPv4 address in either form,
\* the RFC 4193 range of an IPv6 address; no loopback range is among them
IsPrivate(ip) ==
    IF To4(ip) # NilIP
    THEN SubSeq(To4(ip), 1, Len(PrivateV4Prefix)) = PrivateV4Prefix
    ELSE Len(ip) = V6Bits /\ SubSeq(ip, 1, Len(PrivateV6Prefix)) = PrivateV6Prefix

\* Plugin.Lookup
Lookup(answer) ==
    IF answer.err
    THEN [country |-> NoString, err |-> TRUE]
    ELSE IF HasPrefix(ToLower(answer.Country_short),
                        <<"i", "n", "v", "a", "l", "i", "d">>)
    THEN [country |-> NoString, err |-> TRUE]
    ELSE [country |-> answer.Country_short, err |-> FALSE]

\* Plugin.isBlockedIPBlocks and Plugin.isAllowedIPBlocks
isBlockedIPBlocks(p, ipAddr) == contains(p.blockedIPBlocks, ipAddr)
isAllowedIPBlocks(p, ipAddr) == contains(p.allowedIPBlocks, ipAddr)

\* what CheckAllowed returns, and whether it asked the database
Return(allow, country, phase, err, consulted) ==
    [allow |-> allow, country |-> country, phase |-> phase, err |-> err,
     consulted |-> consulted]

\* CheckAllowed from the evaluation of the IP blocks on, with the blocked
\* countries tested before the allowed ones
checkBlocksAndCountryBlockedFirst(p, ipAddr, country) ==
    LET b == isBlockedIPBlocks(p, ipAddr)
        a == isAllowedIPBlocks(p, ipAddr)
        blockFirst == /\ a.prefixLen < b.prefixLen
                      /\ a.prefixLen > 0
                      /\ b.prefixLen > 0
    IN  IF blockFirst /\ b.found
          THEN Return(FALSE, country, "blocked_ip_block", FALSE, TRUE)
        ELSE IF a.found
          THEN Return(TRUE, country, "allowed_ip_block", FALSE, TRUE)
        ELSE IF b.found
          THEN Return(FALSE, country, "blocked_ip_block", FALSE, TRUE)
        ELSE IF country \in p.blockedCountries
          THEN Return(FALSE, country, "blocked_country", FALSE, TRUE)
        ELSE IF country \in p.allowedCountries
          THEN Return(TRUE, country, "allowed_country", FALSE, TRUE)
        ELSE Return(p.defaultAllow, country, "default_allow", FALSE, TRUE)

\* CheckAllowed from the evaluation of the IP blocks on
checkBlocksAndCountry(p, ipAddr, country) ==
    LET b == isBlockedIPBlocks(p, ipAddr)
        a == isAllowedIPBlocks(p, ipAddr)
        blocked == b.found
        blockedNetworkLength == b.prefixLen
        allowed == a.found
        allowedNetworkLength == a.prefixLen
        blockFirst == /\ allowedNetworkLength < blockedNetworkLength
                      /\ allowedNetworkLength > 0
                      /\ blockedNetworkLength > 0
    IN  IF blockFirst /\ blocked
          THEN Return(FALSE, country, "blocked_ip_block", FALSE, TRUE)
        ELSE IF allowed
          THEN Return(TRUE, country, "allowed_ip_block", FALSE, TRUE)
        ELSE IF blocked
          THEN Return(FALSE, country, "blocked_ip_block", FALSE, TRUE)
        ELSE IF country \in p.allowedCountries
          THEN Return(TRUE, country, "allowed_country", FALSE, TRUE)
        ELSE IF country \in p.blockedCountries
          THEN Return(FALSE, country, "blocked_country", FALSE, TRUE)
        ELSE Return(p.defaultAllow, country, "default_allow", FALSE, TRUE)

\* Plugin.CheckAllowed with the country looked up before the private ranges
checkAllowedLookupFirst(p, ip, answer) ==
    LET ipAddr == ParseIP(ip)
        l == Lookup(answer)
    IN  IF ipAddr = NilIP
          THEN Return(FALSE, ip, NoPhase, TRUE, FALSE)
        ELSE IF l.err
          THEN Return(FALSE, ip, NoPhase, TRUE, TRUE)
        ELSE IF IsPrivate(ipAddr)
          THEN Return(p.allowPrivate, PrivateIpCountryAlias, "allow_private", FALSE, TRUE)
        ELSE checkBlocksAndCountry(p, ipAddr, l.country)

\* Plugin.CheckAllowed with a failed lookup passed on as an empty country
checkAllowedIgnoringLookupError(p, ip, answer) ==
    LET ipAddr == ParseIP(ip)
        l == Lookup(answer)
    IN  IF ipAddr = NilIP
          THEN Return(FALSE, ip, NoPhase, TRUE, FALSE)
        ELSE IF IsPrivate(ipAddr)
          THEN Return(p.allowPrivate, PrivateIpCountryAlias, "allow_private", FALSE, FALSE)
        ELSE checkBlocksAndCountry(p, ipAddr, l.country)

\* Plugin.CheckAllowed
checkAllowed(p, ip, answer) ==
    LET ipAddr == ParseIP(ip)
        l == Lookup(answer)
    IN  IF ipAddr = NilIP
          THEN Return(FALSE, ip, NoPhase, TRUE, FALSE)
        ELSE IF IsPrivate(ipAddr)
          THEN Return(p.allowPrivate, PrivateIpCountryAlias, "allow_private", FALSE, FALSE)
        ELSE IF l.err
          THEN Return(FALSE, ip, NoPhase, TRUE, TRUE)
        ELSE checkBlocksAndCountry(p, ipAddr, l.country)

\* the block lists of a configuration: none, or one block of either family
\* with at most as many network bits as an IPv4 address has
BlockLists == {{}} \cup {{c} : c \in {x \in CIDRs : x.ones <= V4Bits}}

\* NewIpLookupFileMonitor: the blocks of the list inserted into an empty tree
NewIpLookupFileMonitor(cidrBlocks) ==
    IF cidrBlocks = {} THEN EmptyTree
    ELSE insert(EmptyTree, CHOOSE c \in cidrBlocks : TRUE)

\* http.StatusForbidden and http.StatusOK, the status codes of the
\* configurations, and http.StatusTeapot, the answer of the next handler
StatusForbidden == 403
StatusOK == 200
StatusTeapot == 418

\* the one header name of the bypass configurations, and an empty map
BypassHeader == "X-Skip-Geoblock"
NoHeaders == [h \in {} |-> ""]

\* the headers the addresses of a request are read from, and the header the
\* country is written to
XForwardedFor == "x-forwarded-for"
XRealIp == "x-real-ip"
XCountryCode == "x-country-code"

\* a nil *IpLookupFileMonitor
NoMonitor == <<"nil">>

\* New: the plugin of one configuration; a disabled plugin keeps nothing of it
New(cfg) ==
    IF ~cfg.Enabled
    THEN [enabled |-> FALSE,
          allowPrivate |-> FALSE,
          defaultAllow |-> FALSE,
          banIfError |-> FALSE,
          disallowedStatusCode |-> 0,
          bypassHeaders |-> NoHeaders,
          ipHeaders |-> <<>>,
          countryHeader |-> "",
          allowedCountries |-> {},
          blockedCountries |-> {},
          allowedIPBlocks |-> NoMonitor,
          blockedIPBlocks |-> NoMonitor,
          cfg |-> cfg]
    ELSE [enabled |-> TRUE,
          allowPrivate |-> cfg.AllowPrivate,
          defaultAllow |-> cfg.DefaultAllow,
          banIfError |-> cfg.BanIfError,
          disallowedStatusCode |-> cfg.DisallowedStatusCode,
          bypassHeaders |-> cfg.BypassHeaders,
          ipHeaders |-> cfg.IPHeaders,
          countryHeader |-> cfg.CountryHeader,
          allowedCountries |-> cfg.AllowedCountries,
          blockedCountries |-> cfg.BlockedCountries,
          allowedIPBlocks |-> NewIpLookupFileMonitor(cfg.AllowedIPBlocks),
          blockedIPBlocks |-> NewIpLookupFileMonitor(cfg.BlockedIPBlocks),
          cfg |-> cfg]

\* the configurations: US on the allow list, US and CN on the block list
PluginConfigs ==
    [Enabled : {TRUE}, BanIfError : {TRUE},
     DisallowedStatusCode : {StatusForbidden}, BypassHeaders : {NoHeaders},
     IPHeaders : {<<XForwardedFor, XRealIp>>}, CountryHeader : {""},
     AllowPrivate : BOOLEAN, DefaultAllow : BOOLEAN,
     AllowedCountries : {{US}}, BlockedCountries : {{US, CN}},
     AllowedIPBlocks : BlockLists, BlockedIPBlocks : BlockLists]

\* CreateConfig: not enabled, banning on errors, no bypass header, no blocks,
\* no private addresses, nothing allowed by default, the addresses taken from
\* x-forwarded-for and x-real-ip, no country header
DefaultConfig ==
    [Enabled |-> FALSE, BanIfError |-> TRUE,
     DisallowedStatusCode |-> StatusForbidden, BypassHeaders |-> NoHeaders,
     IPHeaders |-> <<XForwardedFor, XRealIp>>, CountryHeader |-> "",
     AllowPrivate |-> FALSE, DefaultAllow |-> FALSE,
     AllowedCountries |-> {}, BlockedCountries |-> {},
     AllowedIPBlocks |-> {}, BlockedIPBlocks |-> {}]

NoCheck ==
    [called |-> FALSE, ip |-> NoString, answer |-> [err |-> TRUE, Country_short |-> NoString],
     result |-> Return(FALSE, NoString, NoPhase, FALSE, FALSE)]

pluginFrame ==
    UNCHANGED <<plugin, req, trieVars, regVars, now, fsVars, wrapper, dbVars,
                factoryVars, loopVars, chanVars, closers, closed, missed,
                readerVars, taskVars>>

\* ServeHTTP takes the next address of the request and calls CheckAllowed
CheckAllowed(ip, answer) ==
    /\ ~check.called
    /\ check' = [called |-> TRUE, ip |-> ip, answer |-> answer,
                 result |-> checkAllowed(plugin, ip, answer)]
    /\ pluginFrame

\* ServeHTTP acts on what CheckAllowed returned and goes on
ServeHTTP ==
    /\ check.called
    /\ check' = NoCheck
    /\ pluginFrame

\* an IPv4 address in its 16-byte form, from its leading bits
Address(lead) == MappedPrefix \o lead \o [i \in 1..(V4Bits - Len(lead)) |-> 0]
UsAddress == Address(<<0, 0>>)
CnAddress == Address(<<0, 1>>)
PrivateAddress == Address(PrivateV4Prefix)

\* the addresses the headers of a request name: a US address, a CN address, a
\* private address, and a text that is no address
RequestIPs ==
    {FormatIP(UsAddress), FormatIP(CnAddress), FormatIP(PrivateAddress), Garbage}

\* the database while requests are served: a country for the addresses that
\* begin with 0, an error for the others
Get_country_short(ip) ==
    LET addr == To4(ParseIP(ip))
    IN  IF addr # NilIP /\ SubSeq(addr, 1, 2) = <<0, 0>>
          THEN [err |-> FALSE, Country_short |-> US]
        ELSE IF addr # NilIP /\ SubSeq(addr, 1, 2) = <<0, 1>>
          THEN [err |-> FALSE, Country_short |-> CN]
        ELSE [err |-> TRUE, Country_short |-> NoString]

\* the answers of the database while requests are served
RequestAnswers == {Get_country_short(ip) : ip \in RequestIPs}

RECURSIVE TrimSpace(_)
\* strings.TrimSpace
TrimSpace(str) ==
    IF str = <<>> THEN str
    ELSE IF Head(str) = " " THEN TrimSpace(Tail(str))
    ELSE IF str[Len(str)] = " " THEN TrimSpace(SubSeq(str, 1, Len(str) - 1))
    ELSE str

\* cleanIPAddress: the text without the blanks around it and, when
\* net.SplitHostPort finds one colon before a port, without that port
cleanIPAddress(ip) ==
    LET trimmed == TrimSpace(ip)
        colons == {i \in DOMAIN trimmed : trimmed[i] = ":"}
    IN  IF trimmed = <<>> THEN NoString
        ELSE IF Cardinality(colons) = 1
          THEN SubSeq(trimmed, 1, (CHOOSE i \in colons : TRUE) - 1)
        ELSE trimmed

\* the pieces strings.Split(headerValue, ",") yields: an address, an address
\* after a blank, an address with a port, a text that is no address, a blank
HeaderEntries ==
    {FormatIP(UsAddress), <<" ">> \o FormatIP(PrivateAddress),
     FormatIP(CnAddress) \o <<":", "8", "0">>, Garbage, <<" ">>}

\* pieces the address headers of one request hold at most
MaxCandidates == 2

RECURSIVE SeqsUpTo(_, _)
\* the sequences over S of length at most n
SeqsUpTo(S, n) ==
    IF n = 0 THEN {<<>>}
    ELSE {<<>>} \cup {<<x>> \o q : x \in S, q \in SeqsUpTo(S, n - 1)}

\* req.Header.Get of the bypass header when it is on the request: empty, the
\* value "1", another
HeaderValues == {"", "1", "0"}

\* the headers of a request: the bypass header, absent or with one value, and
\* the pieces of x-forwarded-for and of x-real-ip (none: absent or empty)
RequestHeaders ==
    {h \in [bypass : {<<>>} \cup {<<x>> : x \in HeaderValues},
            xff : SeqsUpTo(HeaderEntries, MaxCandidates),
            xri : SeqsUpTo(HeaderEntries, 1)] :
        Len(h.xff) + Len(h.xri) <= MaxCandidates}

\* req.Header.Get: the first value of the header, "" when it is absent
Get(values) == IF values = <<>> THEN "" ELSE values[1]

\* the pieces of the address header of the given name on the request
Pieces(headers, headerName) ==
    IF headerName = XForwardedFor THEN headers.xff
    ELSE IF headerName = XRealIp THEN headers.xri
    ELSE <<>>

\* GetRemoteIPs: the keys of uniqIPs, the cleaned pieces of the configured
\* headers that are not empty
uniqIPs(p, headers) ==
    UNION {{cleanIPAddress(Pieces(headers, p.ipHeaders[k])[i]) :
                i \in DOMAIN Pieces(headers, p.ipHeaders[k])} :
           k \in DOMAIN p.ipHeaders} \ {NoString}

\* the orders a range over a map can yield its keys in
RangeOver(S) ==
    {q \in [1..Cardinality(S) -> S] : \A i, j \in DOMAIN q : i # j => q[i] # q[j]}

\* GetRemoteIPs: the slice filled by ranging over uniqIPs
GetRemoteIPs(p, headers) == RangeOver(uniqIPs(p, headers))

\* the bypass configurations: none, the header with the value "1", the header
\* with an empty value
BypassConfigs == {NoHeaders, BypassHeader :> "1", BypassHeader :> ""}

\* the configurations requests are served under: US allowed, CN blocked,
\* private addresses allowed, no IP blocks, the country written to a header
RequestConfigs ==
    [Enabled : BOOLEAN, BanIfError : BOOLEAN,
     DisallowedStatusCode : {StatusForbidden, StatusOK},
     BypassHeaders : BypassConfigs,
     IPHeaders : {<<XForwardedFor, XRealIp>>, <<XRealIp>>},
     CountryHeader : {XCountryCode},
     AllowPrivate : {TRUE}, DefaultAllow : BOOLEAN,
     AllowedCountries : {{US}}, BlockedCountries : {{CN}},
     AllowedIPBlocks : {{}}, BlockedIPBlocks : {{}}]

\* no request is being served
NoRequest ==
    [pc |-> "idle", header |-> "", headers |-> [bypass |-> <<>>, xff |-> <<>>, xri |-> <<>>],
     ips |-> <<>>, named |-> {}, pending |-> {}, checked |-> {},
     country |-> NoString, outcome |-> "none", status |-> 0]

requestFrame ==
    UNCHANGED <<plugin, check, trieVars, regVars, now, fsVars, wrapper, dbVars,
                factoryVars, loopVars, chanVars, closers, closed, missed,
                readerVars, taskVars>>

\* p.next.ServeHTTP: the request is forwarded and the next handler answers
forwarded(r) == [r EXCEPT !.pc = "done", !.outcome = "forwarded", !.status = StatusTeapot]

\* serveBanHtml: the request is answered with the configured status code
banned(r) ==
    [r EXCEPT !.pc = "done", !.outcome = "banned",
              !.status = plugin.disallowedStatusCode]

\* the bypass loop of ServeHTTP: some configured header has its value
bypassed(p, header) ==
    \E h \in DOMAIN p.bypassHeaders :
        h = BypassHeader /\ header = p.bypassHeaders[h]

\* the request as ServeHTTP receives it
arrived(headers, ips) ==
    [NoRequest EXCEPT !.header = Get(headers.bypass), !.headers = headers,
                      !.ips = ips, !.named = {ips[i] : i \in DOMAIN ips}]

\* ServeHTTP up to its loop, without the bypass loop
ServeHTTPBeginNoBypass(headers, ips) ==
    /\ req.pc = "idle"
    /\ ips \in GetRemoteIPs(plugin, headers)
    /\ LET r == arrived(headers, ips)
       IN  IF ~plugin.enabled
             THEN req' = forwarded([r EXCEPT !.ips = <<>>, !.named = {}])
           ELSE req' = [r EXCEPT !.pc = "loop", !.pending = r.named]
    /\ requestFrame

\* ServeHTTP up to its loop: a disabled plugin and a bypass header forward
\* the request, else GetRemoteIPs collects the addresses of the request
ServeHTTPBegin(headers, ips) ==
    /\ req.pc = "idle"
    /\ ips \in GetRemoteIPs(plugin, headers)
    /\ LET r == arrived(headers, ips)
       IN  IF ~plugin.enabled
             THEN req' = forwarded([r EXCEPT !.ips = <<>>, !.named = {}])
           ELSE IF bypassed(plugin, r.header)
             THEN req' = forwarded([r EXCEPT !.ips = <<>>, !.named = {}])
           ELSE req' = [r EXCEPT !.pc = "loop", !.pending = r.named]
    /\ requestFrame

\* the address the loop of ServeHTTP has come to
nextIP == req.ips[Cardinality(req.checked) + 1]

\* the loop of ServeHTTP has called CheckAllowed: the address is checked, and
\* a country that is not empty is written to the country header
checkedRequest(ip, res) ==
    [req EXCEPT !.pending = @ \ {ip},
                !.checked = @ \cup {[ip |-> ip, result |-> res]},
                !.country = IF plugin.countryHeader # "" /\ res.country # NoString
                              THEN res.country ELSE @]

\* one turn of the loop with an error treated as a denial whatever banIfError
ServeHTTPCheckAlwaysBan(ip, answer) ==
    /\ req.pc = "loop"
    /\ req.pending # {}
    /\ ip = nextIP
    /\ LET res == checkAllowed(plugin, ip, answer)
           r == checkedRequest(ip, res)
       IN  IF res.err
             THEN req' = banned(r)
           ELSE IF ~res.allow
             THEN req' = banned(r)
           ELSE req' = r
    /\ requestFrame

\* one turn of the loop with a denied address skipped
ServeHTTPCheckSkipDenied(ip, answer) ==
    /\ req.pc = "loop"
    /\ req.pending # {}
    /\ ip = nextIP
    /\ LET res == checkAllowed(plugin, ip, answer)
           r == checkedRequest(ip, res)
       IN  IF res.err
             THEN IF plugin.banIfError THEN req' = banned(r) ELSE req' = r
           ELSE IF ~res.allow /\ r.pending = {}
             THEN req' = banned(r)
           ELSE req' = r
    /\ requestFrame

\* one turn of the loop of ServeHTTP: CheckAllowed on the next address; an
\* error bans the request under banIfError and is passed over otherwise, a
\* denial bans the request
ServeHTTPCheck(ip, answer) ==
    /\ req.pc = "loop"
    /\ req.pending # {}
    /\ ip = nextIP
    /\ LET res == checkAllowed(plugin, ip, answer)
           r == checkedRequest(ip, res)
       IN  IF res.err
             THEN IF plugin.banIfError THEN req' = banned(r) ELSE req' = r
           ELSE IF ~res.allow
             THEN req' = banned(r)
           ELSE req' = r
    /\ requestFrame

\* the end of the loop of ServeHTTP with the default-allow flag applied to a
\* request that named no address
ServeHTTPForwardByDefault ==
    /\ req.pc = "loop"
    /\ req.pending = {}
    /\ req' = IF req.named = {} /\ ~plugin.defaultAllow
                THEN banned(req) ELSE forwarded(req)
    /\ requestFrame

\* the end of the loop of ServeHTTP: no address was denied
ServeHTTPForward ==
    /\ req.pc = "loop"
    /\ req.pending = {}
    /\ req' = forwarded(req)
    /\ requestFrame

\* ServeHTTP has returned; the next request may come
ServeHTTPReturn ==
    /\ req.pc = "done"
    /\ req' = NoRequest
    /\ requestFrame

\* the plugin of the default configuration, no call made, no request
InitPlugin ==
    /\ plugin = New(DefaultConfig)
    /\ check = NoCheck
    /\ req = NoRequest

----------------------------------------------------------------------------
(* The factory with its auto-update goroutine, its readers and the         *)
(* downloads it starts.                                                    *)

\* nothing is constructed, no goroutine runs
InitFactory ==
    /\ now = T0
    /\ dir = {}
    /\ wrapper = EmptyWrapper
    /\ dbState = [h \in Handles |-> "unused"]
    /\ dbPath = [h \in Handles |-> NoPath]
    /\ dbVer = [h \in Handles |-> NoVersion]
    /\ nextCopy = 0
    /\ fpc = "new"
    /\ sourceDbPath = NoPath
    /\ currentLocalDbCopy = NoPath
    /\ upc = "none"
    /\ latest = NoPath
    /\ newLatest = NoPath
    /\ swapNew = EmptyWrapper
    /\ swapOld = NoDb
    /\ tickPending = FALSE
    /\ tickerStopped = FALSE
    /\ stopClosed = FALSE
    /\ closers = {}
    /\ closed = FALSE
    /\ missed = 0
    /\ rpc = [r \in Readers |-> "idle"]
    /\ rdb = [r \in Readers |-> NoDb]
    /\ rres = [r \in Readers |-> "none"]
    /\ tpc = [t \in Tasks |-> "idle"]
    /\ tver = [t \in Tasks |-> NoVersion]
    /\ tres = [t \in Tasks |-> "none"]

\* the registry is empty, nobody is in GetDatabaseFactory
InitRegistry ==
    /\ factories = EmptyMap
    /\ factoryMutex = "free"
    /\ mgrs = EmptyMap
    /\ cpc = [x \in Callers \cup {Cleaner} |-> "idle"]
    /\ ccfg = EmptyMap
    /\ cret = [x \in Callers |-> NoFactory]
    /\ returned = {}

\* the directory may hold a lock file that a killed process left behind
Init ==
    /\ InitFactory
    /\ InitRegistry
    /\ InitTrie
    /\ InitPlugin
    /\ lock \in {NoLock, T0 - HalfHour}
    /\ fallback \in Dates \cup {NoFile}
    /\ autoUpdate \in BOOLEAN
    /\ autoUpdateDir \in IF autoUpdate THEN BOOLEAN ELSE {TRUE}

Next ==
    \/ AdvanceSecond
    \/ AdvancePeriod
    \/ \E d \in DirDates : ExternalDrop(d)
    \/ NewDatabaseFactory
    \/ SelectTick
    \/ SelectStop
    \/ CheckVersion
    \/ ScanAndUpdate
    \/ Rescan
    \/ HotSwapPrepare
    \/ SwapDb
    \/ SwapPath
    \/ SwapVersion
    \/ HotSwapFinish
    \/ \E c \in closers : CloseOldDb(c)
    \/ Close
    \/ \E r \in Readers : LookupStart(r) \/ LookupFinish(r)
    \/ \E t \in OwnTasks : \/ StatLock(t)
                           \/ RemoveStaleLock(t)
                           \/ CreateLock(t)
                           \/ Fetch(t)
                           \/ CopyToFinal(t)
                           \/ RemoveLock(t)

Spec == Init /\ [][Next]_vars

----------------------------------------------------------------------------
(* The registry alone: callers of GetDatabaseFactory and CleanupFactories. *)

InitReg ==
    /\ InitFactory
    /\ InitRegistry
    /\ InitTrie
    /\ InitPlugin
    /\ lock = NoLock
    /\ fallback = NoFile
    /\ autoUpdate = FALSE
    /\ autoUpdateDir = TRUE

NextReg ==
    \/ \E caller \in Callers, c \in Configs : FastPath(caller, c)
    \/ \E caller \in Callers : AcquireLock(caller)
    \/ \E caller \in Callers : SlowPath(caller)
    \/ \E caller \in Callers : CloseFactory(caller)
    \/ CleanupLock
    \/ CleanupFactories

SpecRegistry == InitReg /\ [][NextReg]_vars

----------------------------------------------------------------------------
(* The lock file alone: download attempts of several filter instances or   *)
(* processes on one auto-update directory, over a few hours.               *)

\* time passes between the steps of the attempts
AdvanceHalfHour ==
    /\ now - T0 < MaxHalfHours * HalfHour
    /\ now' = now + HalfHour
    /\ UNCHANGED <<otherVars, missed, fsVars, wrapper, dbVars, factoryVars,
                   loopVars, chanVars, closers, closed, readerVars, taskVars>>

\* the directory has no lock file, or one that a killed process left behind
InitLock ==
    /\ InitFactory
    /\ InitRegistry
    /\ InitTrie
    /\ InitPlugin
    /\ lock \in {NoLock, T0 - HalfHour}
    /\ fallback = NoFile
    /\ autoUpdate = TRUE
    /\ autoUpdateDir = TRUE

NextLock ==
    \/ AdvanceHalfHour
    \/ \E t \in Tasks : StartDownload(t)
    \/ \E t \in Tasks : StatLock(t)
    \/ \E t \in Tasks : RemoveStaleLock(t)
    \/ \E t \in Tasks : CreateLock(t)
    \/ \E t \in Tasks : Fetch(t)
    \/ \E t \in Tasks : CopyToFinal(t)
    \/ \E t \in Tasks : RemoveLock(t)

SpecLock == InitLock /\ [][NextLock]_vars

----------------------------------------------------------------------------
(* The radix tree alone: a helper is built from a list of blocks and is    *)
(* asked about addresses.                                                  *)

InitHelper ==
    /\ InitFactory
    /\ InitRegistry
    /\ InitTrie
    /\ InitPlugin
    /\ lock = NoLock
    /\ fallback = NoFile
    /\ autoUpdate = FALSE
    /\ autoUpdateDir = TRUE

NextHelper ==
    \/ \E cidr \in CIDRs : Insert(cidr)
    \/ \E ip \in IPs \cup {NilIP} : IsContained(ip)

SpecHelper == InitHelper /\ [][NextHelper]_vars

\* the construction of a helper alone: the blocks of its list are inserted
NextInsert == \E cidr \in CIDRs : Insert(cidr)

SpecInsert == InitHelper /\ [][NextInsert]_vars

----------------------------------------------------------------------------
(* The block lists: a monitor is built from a static list and a directory  *)
(* and is asked about addresses.                                           *)

NextMonitor ==
    \/ /\ ~built.done
       /\ \E cidrBlocks \in BlockLists, directory \in Directories :
             NewMonitor(cidrBlocks, directory)
    \/ /\ built.done
       /\ \E ip \in IPs \cup {NilIP} : IsContained(ip)

SpecMonitor == InitHelper /\ [][NextMonitor]_vars

----------------------------------------------------------------------------
(* The plugin alone: it is built from a configuration and decides the      *)
(* addresses of the requests.                                              *)

InitCheck ==
    /\ InitFactory
    /\ InitRegistry
    /\ InitTrie
    /\ lock = NoLock
    /\ fallback = NoFile
    /\ autoUpdate = FALSE
    /\ autoUpdateDir = TRUE
    /\ plugin \in {New(cfg) : cfg \in PluginConfigs}
    /\ check = NoCheck
    /\ req = NoRequest

NextCheck ==
    \/ \E ip \in IpStrings, answer \in DbAnswers : CheckAllowed(ip, answer)
    \/ ServeHTTP

SpecPlugin == InitCheck /\ [][NextCheck]_vars

----------------------------------------------------------------------------
(* The requests: ServeHTTP on requests that name several addresses.        *)

InitRequest ==
    /\ InitFactory
    /\ InitRegistry
    /\ InitTrie
    /\ lock = NoLock
    /\ fallback = NoFile
    /\ autoUpdate = FALSE
    /\ autoUpdateDir = TRUE
    /\ plugin \in {New(cfg) : cfg \in RequestConfigs}
    /\ check = NoCheck
    /\ req = NoRequest

NextRequest ==
    \/ /\ req.pc = "idle"
       /\ \E headers \in RequestHeaders :
            \E ips \in GetRemoteIPs(plugin, headers) : ServeHTTPBegin(headers, ips)
    \/ \E ip \in RequestIPs : ServeHTTPCheck(ip, Get_country_short(ip))
    \/ ServeHTTPForward
    \/ ServeHTTPReturn

SpecRequest == InitRequest /\ [][NextRequest]_vars

----------------------------------------------------------------------------
(* The hot swap seen by readers.                                           *)

\* the lock-free accessors of DatabaseWrapper: each returns the field as it is
GetVersion == wrapper.version
GetPath == wrapper.path
GetDb == wrapper.db

\* a reader, a path and a version that belong to one snapshot: the path and
\* the version are those of the file the reader was opened on
OneSnapshot(db, path, version) ==
    db # NoDb => (path = dbPath[db] /\ version = dbVer[db])

\* C1: whenever a reader reads the current handle, the reader, the path and the
\* version it gets belong to one and the same snapshot, never to two.
C1_ReadsSeeOneSnapshot ==
    fpc = "ready" => OneSnapshot(GetDb, GetPath, GetVersion)

\* C2: a reader that a hot swap replaced is closed only after every lookup that
\* took it from the wrapper has finished, and no lookup runs against it once it
\* is closed.
C2_ReplacedReaderOutlivesLookups ==
    \A r \in Readers :
        /\ (rpc[r] = "called" /\ rdb[r] # NoDb) => dbState[rdb[r]] # "retired"
        /\ rres[r] # "retired_reader"

\* C3: from construction until Close, the handle holds one open reader together
\* with the path and the version of that reader; it is never empty and never
\* refers to a closed reader.
C3_SlotHoldsOpenSnapshot ==
    (fpc = "ready" /\ ~closed) =>
        /\ wrapper.db # NoDb
        /\ dbState[wrapper.db] = "open"
        /\ wrapper.path = dbPath[wrapper.db]
        /\ wrapper.version = dbVer[wrapper.db]

\* The part of C3 that the code keeps: from construction until Close the handle
\* holds a reader, and that reader is open.
SlotHoldsOpenReader ==
    (fpc = "ready" /\ ~closed) =>
        (wrapper.db # NoDb /\ dbState[wrapper.db] = "open")

\* C4: a lookup takes no lock and the refresh never blocks it: whatever the
\* auto-update goroutine, the downloads and the closers are doing, a reader can
\* start a lookup, and a lookup that has started can finish.
C4_LookupNeverBlocked ==
    \A r \in Readers :
        /\ (fpc = "ready" /\ rpc[r] = "idle") => ENABLED LookupStart(r)
        /\ rpc[r] = "called" => ENABLED LookupFinish(r)

\* a lookup is in flight while the goroutine is in the middle of swapDatabase
\* and a download holds the lock file
C4_Witness ==
    /\ upc = "swap_path"
    /\ \E t \in Tasks : InDownloadSection(t)
    /\ \E r \in Readers : rpc[r] = "called"

\* C5: once Close has been called, the refresh goes no further: no step taken
\* after Close opens a database reader or installs anything in the handle.
C5_NothingAfterClose ==
    [][closed =>
         /\ wrapper' = wrapper
         /\ \A h \in Handles : dbState[h] = "unused" => dbState'[h] = "unused"]_vars

\* C6: a newer database file that a refresh check of a stale database found in
\* the directory is swapped in by that check or, at the latest, by the next
\* one: two checks in a row never both find it and leave the old one active.
C6_NewerFileSwappedInWithinTwoChecks ==
    ~closed => missed < 2

C8_DifferentConfigsDifferentFactories ==
    \A p, q \in returned : p[1] # q[1] => p[2] # q[2]

\* C9: while the lock file of the directory is less than an hour old, at most
\* one task is between creating the lock file and removing it.
C9_OneTaskInDownloadSection ==
    (lock # NoLock /\ now - lock < LockStaleAge)
        => Cardinality({t \in Tasks : InDownloadSection(t)}) <= 1

\* C10: an attempt that finds a lock file more than an hour old goes on to
\* remove it, and having removed it goes on to the download; an attempt that
\* finds a lock file less than an hour old returns, reporting a download in
\* progress and no error, and changes neither the directory nor the lock.
C10_StaleLockRemovedYoungLockRespected ==
    [][\A t \in Tasks :
        /\ (tpc[t] = "stat" /\ tpc'[t] # "stat" /\ lock # NoLock
                /\ now - lock > LockStaleAge)
              => (tpc'[t] = "remove" /\ tres'[t] = "running")
        /\ (tpc[t] = "remove" /\ tpc'[t] # "remove" /\ lock # NoLock)
              => (lock' = NoLock /\ tpc'[t] = "create" /\ tres'[t] = "running")
        /\ (tpc[t] = "stat" /\ tpc'[t] # "stat" /\ lock # NoLock
                /\ now - lock < LockStaleAge)
              => /\ tpc'[t] = "idle"
                 /\ tres'[t] = "in_progress"
                 /\ dir' = dir
                 /\ lock' = lock]_vars

\* one attempt has returned on a young lock file and, more than an hour
\* later, another has found it stale and is about to remove it
C10_Witness ==
    /\ \E t \in Tasks : tres[t] = "in_progress"
    /\ \E t \in Tasks : /\ tpc[t] = "remove"
                         /\ lock # NoLock
                         /\ now - lock > LockStaleAge

\* a step of the background refresh that ends in failure: checkAndUpdate
\* returns without a swap, or the download goroutine returns without a file
RefreshStepFails ==
    \/ upc \in {"rescan", "swap_prepare"} /\ upc' = "select"
    \/ \E t \in OwnTasks :
          /\ tres[t] = "running"
          /\ tres'[t] \in {"in_progress", "remove_failed", "download_failed",
                            "copy_failed"}

\* C11: a step of the background refresh that fails leaves the handle as it
\* was: the same reader, path and version, the reader in the same state, so
\* lookups go on being served from it.
C11_FailedRefreshLeavesHandle ==
    [][RefreshStepFails =>
         /\ wrapper' = wrapper
         /\ wrapper.db # NoDb => dbState'[wrapper.db] = dbState[wrapper.db]
         /\ \A r \in Readers : rpc'[r] = rpc[r] /\ rres'[r] = rres[r]]_vars

\* performHotSwap has failed after OpenDB (the reader it opened is closed
\* again), the factory is live and a lookup is being served
C11_Witness ==
    /\ fpc = "ready"
    /\ ~closed
    /\ upc = "select"
    /\ \E h \in Handles : dbState[h] = "closed" /\ h # wrapper.db
    /\ wrapper.db # NoDb
    /\ dbState[wrapper.db] = "open"
    /\ \E r \in Readers : rpc[r] = "called" /\ rdb[r] = wrapper.db

\* What a failed initialize leaves behind in the factory itself: no reader in
\* the wrapper, no reader left open, no auto-update goroutine.
FailedInitStartsNothing ==
    fpc = "failed" =>
        /\ wrapper = EmptyWrapper
        /\ upc = "none"
        /\ \A h \in Handles : dbState[h] # "open"

\* C12: a GetDatabaseFactory whose construction fails returns no factory,
\* constructs none (so no reader is open and no auto-update goroutine runs for
\* it) and leaves the registry without an entry for the key, so that the next
\* request for the configuration goes to construction again.
C12_FailedConstructionRegistersNothing ==
    [][\A caller \in Callers :
         (cpc[caller] = "locked" /\ cpc'[caller] = "idle"
             /\ cret'[caller] = NoFactory)
           => /\ mgrs' = mgrs
              /\ factories' = factories
              /\ ConfigKey[ccfg[caller]] \notin DOMAIN factories']_vars

\* the construction for one caller has failed, and the next request for the
\* same configuration has missed the registry and holds the write lock
C12_Witness ==
    /\ DOMAIN ccfg = Callers
    /\ cpc["c1"] = "idle"
    /\ cret["c1"] = NoFactory
    /\ ccfg["c2"] = ccfg["c1"]
    /\ cpc["c2"] = "locked"
    /\ ConfigKey[ccfg["c2"]] \notin DOMAIN factories
    /\ mgrs = EmptyMap

\* the address family of an address or of the address of a block
IsIPv4(ip) == To4(ip) # NilIP

\* net.IPNet.Contains: the block and the address are of one family and the
\* address has the network bits of the block
CidrContains(cidr, addr) ==
    LET a == IF IsIPv4(addr) THEN To4(addr) ELSE addr
        nn == IF IsIPv4(cidr.ip) THEN To4(cidr.ip) ELSE cidr.ip
    IN  /\ Len(a) = Len(nn)
        /\ \A i \in 1..cidr.ones : a[i] = nn[i]

\* the inserted blocks that contain the address of the last call
Containing == {c \in blocks : CidrContains(c, lookup.ip)}

\* C13: an address that lies in at least one inserted block is reported found,
\* with the largest prefix length among the inserted blocks that contain it.
C13_LongestContainingPrefix ==
    (lookup.ip # NilIP /\ Containing # {}) =>
        /\ lookup.found
        /\ lookup.prefixLen = SetMax({c.ones : c \in Containing})

\* C14: an address that lies in no inserted block is reported not found; a
\* block of one family never matches an address of the other.
C14_NotContainedNotFound ==
    (lookup.ip # NilIP /\ Containing = {}) => ~lookup.found

\* What the tree does keep: when every inserted block is of the family of the
\* address, the answer is exact.
WithinOneFamilyLookupIsExact ==
    (lookup.ip # NilIP /\ \A c \in blocks : IsIPv4(c.ip) = IsIPv4(lookup.ip)) =>
        /\ lookup.found = (Containing # {})
        /\ lookup.found => lookup.prefixLen = SetMax({c.ones : c \in Containing})

----------------------------------------------------------------------------
(* The decision of CheckAllowed.                                           *)

\* the address of the call in flight
CheckedIP == ParseIP(check.ip)

\* the loopback ranges 127.0.0.0/8 and ::1
LoopbackV4Prefix == <<0, 1>>
IsLoopback(ip) ==
    IF IsIPv4(ip)
    THEN SubSeq(To4(ip), 1, Len(LoopbackV4Prefix)) = LoopbackV4Prefix
    ELSE ip = [i \in 1..V6Bits |-> IF i = V6Bits THEN 1 ELSE 0]

\* the configured blocks that contain the address of the call
AllowMatches == {c \in plugin.cfg.AllowedIPBlocks : CidrContains(c, CheckedIP)}
BlockMatches == {c \in plugin.cfg.BlockedIPBlocks : CidrContains(c, CheckedIP)}
AllowLength == SetMax({c.ones : c \in AllowMatches})
BlockLength == SetMax({c.ones : c \in BlockMatches})

\* a call on a public address whose country the database knows: the private
\* phase and the lookup leave the decision to the IP blocks
ReachedIPBlocks ==
    /\ check.called
    /\ CheckedIP # NilIP
    /\ ~IsPrivate(CheckedIP) /\ ~IsLoopback(CheckedIP)
    /\ ~Lookup(check.answer).err

Decided(allow, phase) ==
    /\ ~check.result.err
    /\ check.result.allow = allow
    /\ check.result.phase = phase

\* C15: when an allowed block and a blocked block both contain the address
\* and their prefix lengths differ, the longer prefix decides: the phase is
\* allowed_ip_block or blocked_ip_block accordingly.
C15_LongerPrefixDecides ==
    (ReachedIPBlocks /\ AllowMatches # {} /\ BlockMatches # {}
        /\ AllowLength # BlockLength) =>
        IF AllowLength > BlockLength
        THEN Decided(TRUE, "allowed_ip_block")
        ELSE Decided(FALSE, "blocked_ip_block")

\* What the code does keep: with blocks of the family of the address and an
\* allowed block that is not the whole address space, the longer prefix
\* decides.
LongerPrefixDecidesBesideSlashZero ==
    (ReachedIPBlocks /\ AllowMatches # {} /\ BlockMatches # {}
        /\ AllowLength # BlockLength /\ AllowLength > 0
        /\ \A c \in plugin.cfg.AllowedIPBlocks \cup plugin.cfg.BlockedIPBlocks :
              IsIPv4(c.ip) = IsIPv4(CheckedIP)) =>
        IF AllowLength > BlockLength
        THEN Decided(TRUE, "allowed_ip_block")
        ELSE Decided(FALSE, "blocked_ip_block")

\* C16: with equal prefix lengths the address is allowed by the allowed
\* block; when only an allowed block contains it, it is allowed; when only a
\* blocked block contains it, it is blocked.
C16_TieAndSingleMatch ==
    ReachedIPBlocks =>
        /\ (AllowMatches # {} /\ BlockMatches # {} /\ AllowLength = BlockLength)
              => Decided(TRUE, "allowed_ip_block")
        /\ (AllowMatches # {} /\ BlockMatches = {})
              => Decided(TRUE, "allowed_ip_block")
        /\ (AllowMatches = {} /\ BlockMatches # {})
              => Decided(FALSE, "blocked_ip_block")

\* What the code does keep: the same, when every block is of the family of
\* the address.
TieAndSingleMatchWithinOneFamily ==
    (ReachedIPBlocks
        /\ \A c \in plugin.cfg.AllowedIPBlocks \cup plugin.cfg.BlockedIPBlocks :
              IsIPv4(c.ip) = IsIPv4(CheckedIP)) =>
        /\ (AllowMatches # {} /\ BlockMatches # {} /\ AllowLength = BlockLength)
              => Decided(TRUE, "allowed_ip_block")
        /\ (AllowMatches # {} /\ BlockMatches = {})
              => Decided(TRUE, "allowed_ip_block")
        /\ (AllowMatches = {} /\ BlockMatches # {})
              => Decided(FALSE, "blocked_ip_block")

\* the terminal result of the private phase
PrivateResult(consulted) ==
    Return(plugin.allowPrivate, PrivateIpCountryAlias, "allow_private", FALSE,
           consulted)

\* C17: for every address of a private or a loopback range the call returns
\* the allow-private flag as verdict, the country PRIVATE, the phase
\* allow_private and no error, whatever the block lists and country sets hold.
C17_PrivateAndLoopbackAreTerminal ==
    (check.called /\ CheckedIP # NilIP
        /\ (IsPrivate(CheckedIP) \/ IsLoopback(CheckedIP))) =>
        \E consulted \in BOOLEAN : check.result = PrivateResult(consulted)

\* C18: for a private address the database is not asked, and the call returns
\* the same error-free result whether the database would have answered with a
\* country, with an error or with its message for a bad address.
C18_PrivateAddressSkipsDatabase ==
    (check.called /\ CheckedIP # NilIP /\ IsPrivate(CheckedIP)) =>
        /\ check.result = PrivateResult(FALSE)
        /\ \A answer \in DbAnswers :
              checkAllowed(plugin, check.ip, answer) = check.result

\* a private address was checked while the database answered with an error
\* and a block list of the plugin holds a block
C18_Witness ==
    /\ check.called
    /\ CheckedIP # NilIP /\ IsPrivate(CheckedIP)
    /\ check.answer.err
    /\ plugin.allowPrivate
    /\ BlockMatches # {}
    /\ check.result.allow

\* C19: when an allowed or a blocked block contains the address, the verdict
\* and the phase come from the IP blocks whatever the database answers: a
\* failing lookup makes the call neither an error nor another verdict.
C19_DecisiveBlockIgnoresLookup ==
    (check.called /\ CheckedIP # NilIP
        /\ ~IsPrivate(CheckedIP) /\ ~IsLoopback(CheckedIP)
        /\ (AllowMatches # {} \/ BlockMatches # {})) =>
        /\ ~check.result.err
        /\ check.result.phase \in {"allowed_ip_block", "blocked_ip_block"}
        /\ \A answer \in DbAnswers :
              LET other == checkAllowed(plugin, check.ip, answer)
              IN  /\ other.err = check.result.err
                  /\ other.allow = check.result.allow
                  /\ other.phase = check.result.phase

\* C20: for an address that is neither private nor loopback and lies in no
\* configured block, a lookup that fails or answers with the message for a bad
\* address makes the call an error with allow = false and no phase; the
\* country sets and the default are not applied.
C20_FailedLookupIsAnError ==
    (check.called /\ CheckedIP # NilIP
        /\ ~IsPrivate(CheckedIP) /\ ~IsLoopback(CheckedIP)
        /\ AllowMatches = {} /\ BlockMatches = {}
        /\ (check.answer.err
              \/ HasPrefix(ToLower(check.answer.Country_short),
                           <<"i", "n", "v", "a", "l", "i", "d">>))) =>
        /\ check.result.err
        /\ ~check.result.allow
        /\ check.result.phase = NoPhase

\* the database answered with its message for a bad address on a public
\* address outside every block, under a plugin that allows by default
C20_Witness ==
    /\ check.called
    /\ CheckedIP # NilIP
    /\ ~IsPrivate(CheckedIP) /\ ~IsLoopback(CheckedIP)
    /\ AllowMatches = {} /\ BlockMatches = {}
    /\ plugin.cfg.AllowedIPBlocks # {} /\ plugin.cfg.BlockedIPBlocks # {}
    /\ ~check.answer.err /\ check.answer.Country_short = InvalidAddress
    /\ plugin.defaultAllow
    /\ check.result.err

\* a call that neither the private phase nor the IP blocks decided and whose
\* country the database resolved
ReachedCountries ==
    /\ check.called
    /\ CheckedIP # NilIP
    /\ ~IsPrivate(CheckedIP)
    /\ ~Lookup(check.answer).err
    /\ ~isAllowedIPBlocks(plugin, CheckedIP).found
    /\ ~isBlockedIPBlocks(plugin, CheckedIP).found

\* C21: an address not decided earlier, of resolved country c, is allowed in
\* phase allowed_country when c is an allowed country; else blocked in phase
\* blocked_country when c is a blocked country; else the verdict is the
\* default-allow flag in phase default_allow.
C21_CountrySetsThenDefault ==
    ReachedCountries =>
        LET c == check.answer.Country_short
        IN  /\ check.result.country = c
            /\ IF c \in plugin.cfg.AllowedCountries
                  THEN Decided(TRUE, "allowed_country")
                ELSE IF c \in plugin.cfg.BlockedCountries
                  THEN Decided(FALSE, "blocked_country")
                ELSE Decided(plugin.cfg.DefaultAllow, "default_allow")

\* a country on both lists was resolved for an address that nothing decided
\* earlier, and the call allowed it
C21_Witness ==
    /\ ReachedCountries
    /\ check.answer.Country_short \in
          plugin.cfg.AllowedCountries \cap plugin.cfg.BlockedCountries
    /\ check.result.phase = "allowed_country"

----------------------------------------------------------------------------
(* The answer of ServeHTTP.                                                *)

\* the calls made for the request that ended in a denial, in an error
Denied == {c \in req.checked : ~c.result.err /\ ~c.result.allow}
Failed == {c \in req.checked : c.result.err}

\* the request was answered with the configured status code, not forwarded
Rejected ==
    /\ req.pc = "done"
    /\ req.outcome = "banned"
    /\ req.status = plugin.cfg.DisallowedStatusCode

\* C22: a forwarded request has no checked address that was denied; once an
\* address of the request is denied, the request is answered with the
\* configured status code and is not forwarded.
C22_AnyDenialRejectsTheRequest ==
    /\ req.outcome = "forwarded" => Denied = {}
    /\ Denied # {} => Rejected

\* a request of two addresses: one was allowed, the other denied
C22_Witness ==
    /\ Denied # {}
    /\ \E c \in req.checked : ~c.result.err /\ c.result.allow
    /\ Rejected

\* C23: when the check of an address ends in an error, ban-on-error rejects
\* the request with the configured status code; without ban-on-error the
\* address is passed over and the other addresses alone decide: the request
\* is rejected when one of them is denied and forwarded, after all were
\* checked, when none is.
C23_ErrorBansOrIsSkipped ==
    /\ (Failed # {} /\ plugin.banIfError) => Rejected
    /\ (Failed # {} /\ ~plugin.banIfError /\ req.pc = "done") =>
          IF Denied # {}
          THEN Rejected
          ELSE req.outcome = "forwarded" /\ req.pending = {}
    /\ (Failed # {} /\ ~plugin.banIfError /\ req.pc = "loop") => Denied = {}

\* without ban-on-error a request of an address that failed and an address
\* that was allowed has been forwarded
C23_Witness ==
    /\ ~plugin.banIfError
    /\ Failed # {}
    /\ \E c \in req.checked : ~c.result.err /\ c.result.allow
    /\ req.outcome = "forwarded"

\* some configured bypass header has exactly its configured value on the
\* request
BypassMatches ==
    \E h \in DOMAIN plugin.cfg.BypassHeaders :
        req.header = plugin.cfg.BypassHeaders[h]

----------------------------------------------------------------------------
(* The monitor built from a directory.                                     *)

\* the static blocks and the blocks on the lines of a .txt file that can be
\* read
ValidEntries ==
    built.static \cup
    (IF built.dir.state = "present" /\ built.dir.txt /\ built.dir.readable
     THEN {[ip |-> l.ip, ones |-> l.ones] :
             l \in {x \in built.dir.lines : x.kind = "cidr"}}
     ELSE {})

\* the block contains the address; an IPv4-mapped block is the IPv4 block of
\* its last bits
InBlock(c, ip) ==
    IF Len(c.ip) = V6Bits /\ To4(c.ip) # NilIP
    THEN /\ IsIPv4(ip)
         /\ \A i \in 1..(c.ones - Len(MappedPrefix)) : To4(ip)[i] = To4(c.ip)[i]
    ELSE CidrContains(c, ip)

\* C25: building a monitor from valid static blocks and a directory does not
\* fail over what the directory holds or over its absence: blank lines,
\* comments, texts that are no block and files that cannot be read are passed
\* over, and the monitor matches exactly the addresses of the static blocks
\* and of the valid lines.
C25_DirectoryNeverFailsTheBuild ==
    (built.done /\ built.dir.state # "denied") =>
        /\ ~built.err /\ ~built.panicked
        /\ lookup.ip # NilIP =>
              lookup.found = (\E c \in ValidEntries : InBlock(c, lookup.ip))

\* What the code does keep: no content of the directory makes the build
\* return an error, and with blocks of the family of the address, none of
\* them IPv4-mapped, the monitor matches exactly.
BuildIsExactWithinOneFamily ==
    (built.done /\ built.dir.state # "denied") =>
        /\ ~built.err
        /\ (/\ lookup.ip # NilIP
            /\ \A c \in ValidEntries :
                  c \in CIDRs /\ IsIPv4(c.ip) = IsIPv4(lookup.ip)) =>
              /\ ~built.panicked
              /\ lookup.found = (\E c \in ValidEntries : InBlock(c, lookup.ip))

----------------------------------------------------------------------------
(* The refresh check and the choice of the database file.                  *)

\* C26: a refresh check on an active database whose version date is less
\* than 30 days old returns at once: it scans no directory, starts no
\* download and swaps nothing.
C26_FreshDatabaseIsNotRefreshed ==
    [][(/\ upc = "start" /\ upc' # "start"
        /\ wrapper.version # NoVersion
        /\ now - wrapper.version < StaleAge)
       => /\ upc' = "select"
          /\ UNCHANGED <<fsVars, wrapper, dbVars, latest, newLatest, swapNew,
                         swapOld, taskVars>>]_vars

\* the check has returned on a database of less than 30 days while the
\* directory holds a newer file, and nothing was downloaded or swapped
C26_Witness ==
    /\ fpc = "ready" /\ upc = "select" /\ ~tickPending /\ now > T0
    /\ now - wrapper.version < StaleAge
    /\ findLatestDatabase(dir) > wrapper.version
    /\ \A t \in Tasks : tres[t] = "none"
    /\ \A h \in Handles : h # wrapper.db => dbState[h] = "unused"

----------------------------------------------------------------------------
(* The local copies of the files of the auto-update directory.             *)

\* the reader handles ip2location.OpenDB has handed out
Opened == {h \in Handles : dbState[h] # "unused"}
\* the local copies createLocalDatabaseCopy has made: copyFile(.., false)
\* refuses a destination that exists, so every copy that was made has a name
\* of its own, here the number of the copy
LocalCopies == 1..nextCopy

\* C27: a database of the auto-update directory is never opened in place.
\* Every reader is opened either on the configured database file, and then
\* holds that file's version, or on a local copy createLocalDatabaseCopy has
\* made; no two readers are opened on the same copy, and the path the wrapper
\* reports is the configured file or such a copy.  It holds at initialization
\* and after every hot swap.
C27_DirectoryFileOpenedThroughLocalCopy ==
    /\ \A h \in Opened :
         /\ dbPath[h] \notin DirDates
         /\ dbPath[h] = FallbackPath => dbVer[h] = fallback
         /\ dbPath[h] # FallbackPath =>
              /\ dbPath[h] \in LocalCopies
              /\ \A g \in Opened \ {h} : dbPath[g] # dbPath[h]
    /\ wrapper.path \in {NoPath, FallbackPath} \cup LocalCopies

\* the factory started on a copy of a file of the directory and has swapped
\* in a copy of a newer file: two distinct copies, none the file itself
C27_Witness ==
    /\ fpc = "ready" /\ upc = "select"
    /\ wrapper.db \in Opened
    /\ wrapper.path = 2 /\ dbPath[wrapper.db] = 2
    /\ wrapper.version = NewDate /\ NewDate \in dir
    /\ sourceDbPath = NewDate
    /\ \E g \in Opened : dbPath[g] = 1 /\ dbVer[g] = OldDate

----------------------------------------------------------------------------
(* The database chosen at initialization.                                  *)

\* initialize has returned nil on a configuration with auto-update
InitializedWithAutoUpdate == fpc = "new" /\ fpc' = "ready" /\ autoUpdate

\* C28: at initialization with auto-update the newest dated file of the
\* directory replaces the configured fallback database only when its date is
\* later than the fallback's; otherwise the reader is opened on the fallback.
C28_DirectoryFilePreferredOnlyWhenNewer ==
    [][InitializedWithAutoUpdate =>
         /\ wrapper'.path # FallbackPath =>
              /\ findLatestDatabase(dir) # NoPath
              /\ findLatestDatabase(dir) > fallback
              /\ wrapper'.version = findLatestDatabase(dir)
         /\ wrapper'.path = FallbackPath => wrapper'.version = fallback]_vars

\* what handleAutoUpdateInit does: a file of the directory is used whenever
\* there is one and its local copy can be made, whatever the fallback's date
InitPrefersAnyDirectoryFile ==
    [][InitializedWithAutoUpdate =>
         /\ wrapper'.path # FallbackPath =>
              /\ findLatestDatabase(dir) # NoPath
              /\ wrapper'.version = findLatestDatabase(dir)
         /\ wrapper'.path = FallbackPath => wrapper'.version = fallback]_vars

----------------------------------------------------------------------------
(* The files downloadAndUpdateDatabase puts in the auto-update directory.  *)

\* task t takes a step of downloadAndUpdateDatabase
TaskStep(t) == tpc'[t] # tpc[t]

\* C30: a download task changes the dated files of the directory in one step
\* only, the copy to the final location, which it reaches after
\* GetDatabaseVersion has read the header of the extracted file, and that step
\* adds the file named after that version's date; a step in which the
\* download, the extraction or the validation fails leaves the dated files of
\* the directory as they were, and so does every later step of that run.
C30_OnlyValidatedDownloadIsPromoted ==
    [][\A t \in OwnTasks :
         TaskStep(t) =>
           /\ dir' # dir =>
                /\ tpc[t] = "copy"
                /\ tver[t] \in DirDates
                /\ tres[t] = "running"
                /\ dir' = dir \cup {tver[t]}
           /\ tres'[t] = "download_failed" => dir' = dir]_vars

\* a download has failed while the directory held a dated file: the task is
\* about to remove its lock file, and that file is still the only one
C30_Witness ==
    /\ tpc["t1"] = "unlock"
    /\ tres["t1"] = "download_failed"
    /\ tver["t1"] = NoVersion
    /\ lock # NoLock
    /\ dir = {OldDate}

----------------------------------------------------------------------------
(* Auto-update without a directory.                                        *)

\* NewDatabaseFactory returns for a configuration that enables auto-update
\* and names no auto-update directory
SetUpWithoutDirectory ==
    /\ fpc = "new" /\ fpc' # "new"
    /\ autoUpdate /\ ~autoUpdateDir

\* C29: setting up with auto-update enabled and no auto-update directory
\* fails: no factory is ready, no reader is installed on the fallback database
\* and no update goroutine runs.
C29_MissingDirectoryFailsSetup ==
    [][SetUpWithoutDirectory =>
         /\ fpc' = "failed"
         /\ wrapper' = EmptyWrapper
         /\ upc' = "none"]_vars

\* what initialize does: the error of handleAutoUpdateInit is logged, and a
\* set-up that succeeds has opened the configured database file in place
MissingDirectoryFallsBack ==
    [][SetUpWithoutDirectory /\ fpc' = "ready" =>
         /\ wrapper'.path = FallbackPath
         /\ wrapper'.version = fallback
         /\ upc' = "start"]_vars

----------------------------------------------------------------------------
(* The candidate addresses of a request.                                   *)

\* the cleaned pieces of the configured headers that are not empty, header
\* after header in the configured order, left to right within a header
PiecesInOrder ==
    LET ofHeader(k) ==
            LET pieces == Pieces(req.headers, plugin.ipHeaders[k])
            IN  SelectSeq([i \in DOMAIN pieces |-> cleanIPAddress(pieces[i])],
                          LAMBDA x : x # NoString)
    IN  IF Len(plugin.ipHeaders) = 1 THEN ofHeader(1)
        ELSE ofHeader(1) \o ofHeader(2)

\* the first occurrences of a sequence, in their order
FirstOccurrences(q) ==
    SelectSeq([i \in DOMAIN q |->
                  IF \E j \in 1..(i - 1) : q[j] = q[i] THEN NoString ELSE q[i]],
              LAMBDA x : x # NoString)

\* GetRemoteIPs was called for the request being served
Collected == req.pc = "loop" \/ (req.pc = "done" /\ req.checked # {})

\* C31: the list GetRemoteIPs returns holds every distinct address of the
\* request once, in the order of the configured headers and from left to
\* right within a header, a repeated address at the place of its first
\* occurrence.
C31_CandidatesInHeaderOrder ==
    Collected => req.ips = FirstOccurrences(PiecesInOrder)

\* what GetRemoteIPs guarantees: the distinct addresses, each once, in some
\* order
CandidatesAreDistinct ==
    Collected =>
        /\ {req.ips[i] : i \in DOMAIN req.ips} =
              {PiecesInOrder[i] : i \in DOMAIN PiecesInOrder}
        /\ \A i, j \in DOMAIN req.ips : i # j => req.ips[i] # req.ips[j]

\* the request carries none of the configured address headers, or only
\* blanks in them
NoAddressHeaders ==
    \A k \in DOMAIN plugin.cfg.IPHeaders :
        LET pieces == Pieces(req.headers, plugin.cfg.IPHeaders[k])
        IN  \A i \in DOMAIN pieces : TrimSpace(pieces[i]) = <<>>

\* C33: a request that carries none of the configured address headers, or
\* only empty values in them, is forwarded without any address being checked,
\* under every configuration.
C33_NoCandidateIsForwarded ==
    (req.pc = "done" /\ NoAddressHeaders) =>
        /\ req.outcome = "forwarded"
        /\ req.status = StatusTeapot
        /\ req.checked = {}
        /\ req.country = NoString

\* an enabled plugin that allows nothing by default has forwarded a request
\* without bypass header whose only configured address header holds a blank,
\* while a header that is not configured names an address
C33_Witness ==
    /\ plugin.enabled /\ ~plugin.defaultAllow /\ ~BypassMatches
    /\ plugin.ipHeaders = <<XRealIp>>
    /\ req.headers.xri = <<<<" ">>>>
    /\ req.headers.xff = <<FormatIP(CnAddress) \o <<":", "8", "0">>>>
    /\ req.pc = "done"
    /\ req.outcome = "forwarded"

----------------------------------------------------------------------------
(* The answer of ServeHTTP as a function of the request.                   *)

RECURSIVE serveFrom(_, _, _)
\* the loop of ServeHTTP over the list q from its i-th address on, the country
\* header holding country: how the request is answered, and the country
\* header it then carries
serveFrom(q, i, country) ==
    IF i > Len(q) THEN [outcome |-> "forwarded", country |-> country]
    ELSE LET res == checkAllowed(plugin, q[i], Get_country_short(q[i]))
             c == IF plugin.countryHeader # "" /\ res.country # NoString
                    THEN res.country ELSE country
         IN  IF res.err /\ ~plugin.banIfError THEN serveFrom(q, i + 1, c)
             ELSE IF res.err \/ ~res.allow THEN [outcome |-> "banned", country |-> c]
             ELSE serveFrom(q, i + 1, c)

\* an enabled plugin has answered a request it did not bypass
Evaluated == plugin.enabled /\ req.pc = "done" /\ ~BypassMatches

\* C38: under one configuration and one database a request with the same
\* headers is answered the same way whatever the order its addresses are
\* evaluated in: it is forwarded or rejected alike, and a forwarded request
\* carries the same country header.
C38_AnswerIsAFunctionOfTheRequest ==
    Evaluated =>
        \A q \in GetRemoteIPs(plugin, req.headers) :
            /\ serveFrom(q, 1, NoString).outcome = req.outcome
            /\ req.outcome = "forwarded" =>
                  serveFrom(q, 1, NoString).country = req.country

\* what the loop guarantees: whether the request is forwarded or rejected
\* does not depend on the order
OutcomeIndependentOfOrder ==
    Evaluated =>
        \A q \in GetRemoteIPs(plugin, req.headers) :
            serveFrom(q, 1, NoString).outcome = req.outcome

----------------------------------------------------------------------------
(* A request without the bypass header.                                    *)

\* C40: a request that does not carry the configured bypass header is not
\* bypassed, whatever value is configured for the header: it is forwarded
\* only after each of its addresses was checked.
C40_AbsentHeaderNeverBypasses ==
    (plugin.enabled /\ req.pc = "done" /\ req.headers.bypass = <<>>
        /\ req.outcome = "forwarded") =>
        {c.ip : c \in req.checked} = uniqIPs(plugin, req.headers)

\* what the bypass loop guarantees: a request without the bypass header is
\* bypassed only when the value configured for the header is empty
AbsentHeaderBypassesOnEmptyValue ==
    (plugin.enabled /\ req.pc = "done" /\ req.headers.bypass = <<>>
        /\ req.outcome = "forwarded"
        /\ \A h \in DOMAIN plugin.bypassHeaders : plugin.bypassHeaders[h] # "") =>
        {c.ip : c \in req.checked} = uniqIPs(plugin, req.headers)

----------------------------------------------------------------------------
(* The lookup of a nil address.                                            *)

\* C32: IsContained of a nil address returns an error, with found false and
\* the prefix length 0; it does not panic.
C32_NilAddressIsAnError ==
    [][(lookup' # lookup /\ lookup'.ip = NilIP) =>
         /\ ~lookup'.panicked
         /\ lookup'.err
         /\ ~lookup'.found
         /\ lookup'.prefixLen = 0]_vars

\* what the code does with an address of 16 bytes: no error, no panic
AddressLookupReturns ==
    [][(lookup' # lookup /\ lookup'.ip # NilIP) =>
         ~lookup'.panicked /\ ~lookup'.err]_vars

----------------------------------------------------------------------------
(* The end of a factory: Close and CleanupFactories.                       *)

\* the step in which CleanupFactories returns
CleanupReturns == cpc[Cleaner] = "locked" /\ cpc'[Cleaner] = "idle"

\* the factories that a cleanup closed and deleted
CleanedUp == DOMAIN mgrs \ Registered

C36_SecondCloseIsHarmless ==
    [][/\ \A x \in Callers \cup {Cleaner} : cpc'[x] # "panicked"
       /\ \A m \in DOMAIN mgrs : ~mgrs[m].live => ~mgrs'[m].live]_vars

\* a second Close of a factory without auto-update changes nothing, and a
\* closed factory is never live again
SecondCloseWithoutTickerIsHarmless ==
    [][\A m \in DOMAIN mgrs :
          ~mgrs[m].live =>
              /\ ~mgrs'[m].live
              /\ ~mgrs[m].cfg.DatabaseAutoUpdate => mgrs'[m] = mgrs[m]]_vars

----------------------------------------------------------------------------
(* The endpoints of the radix tree.                                        *)

\* the network bits of a block: the first bits of its address, as many as
\* its mask has ones
NetworkBits(c) ==
    SubSeq(IF To4(c.ip) # NilIP THEN To4(c.ip) ELSE c.ip, 1, c.ones)

\* C35: a node of the tree is an endpoint exactly if an inserted block ends
\* at it, that is, the network bits of the block are the path of the node,
\* and the prefix length stored at an endpoint is the depth of the node
C35_EndpointsAreTheInsertedBlocks ==
    /\ \A c \in blocks : NetworkBits(c) \in DOMAIN tree
    /\ \A node \in DOMAIN tree :
          /\ tree[node].isEndpoint <=> \E c \in blocks : NetworkBits(c) = node
          /\ tree[node].isEndpoint => tree[node].prefixLen = Len(node)

\* two blocks were inserted, the path of one passes a node that is no
\* endpoint and then the endpoint of the other
C35_Witness ==
    \E c \in blocks, d \in blocks :
        /\ c.ones + 1 < d.ones
        /\ SubSeq(NetworkBits(d), 1, c.ones) = NetworkBits(c)
        /\ ~tree[SubSeq(NetworkBits(d), 1, c.ones + 1)].isEndpoint

----------------------------------------------------------------------------
(* The version across hot swaps.                                           *)

\* C37: a hot swap never replaces the database of the wrapper with one
\* whose version date is older: the version of the wrapper never decreases
C37_HotSwapNeverGoesBack ==
    [][wrapper.version # NoVersion /\ wrapper'.version # wrapper.version
          => wrapper'.version > wrapper.version]_vars

----------------------------------------------------------------------------
(* The lock file at the end of a download attempt.                         *)

\* the positions of an attempt between os.Create(lockFile) and its return
HoldsLock == {"fetch", "copy", "unlock"}

\* C39: a download attempt that created the lock file leaves that part of
\* downloadAndUpdateDatabase only by returning, and when it returns, with or
\* without an error, the lock file is gone
C39_FinishedAttemptLeavesNoLock ==
    [][\A t \in Tasks :
          tpc[t] \in HoldsLock =>
              \/ tpc'[t] \in HoldsLock
              \/ tpc'[t] = "idle" /\ lock' = NoLock]_vars

\* one attempt returned after its download failed, another after its copy
\* succeeded, and there is no lock file
C39_Witness ==
    /\ lock = NoLock
    /\ \E t \in Tasks, u \in Tasks :
          /\ tpc[t] = "idle" /\ tres[t] = "download_failed"
          /\ tpc[u] = "idle" /\ tres[u] = "ok"

====
